---- MODULE Spec2Model ----
(***************************************************************************)
(* Verification model of the RestoPros enrichment repository:              *)
(*   - runner.py          sequential orchestrator (run_script,             *)
(*                        run_all_scripts, main)                           *)
(*   - webhook_server.py  Flask listener (monday_hook) and its background  *)
(*                        thread (run_enrichment_async)                    *)
(*   - the enrichment scripts' main loops (scope filter, skip rule, write) *)
(*   - fetch_items        cursor pagination of the board's records         *)
(*   - classify_with_evidence and the scripts' pure helper functions       *)
(* The specifications share the variables:                                 *)
(*   Spec        orchestrator + webhook listener                           *)
(*   SpecScript  two consecutive runs of one enrichment script             *)
(*   SpecFetch   one call of fetch_items against a paginated server        *)
(*   SpecClassify  one call of classify_with_evidence                      *)
(*   SpecDomain, SpecNumber, SpecLinks, SpecWebsite  one call of a helper  *)
(*   SpecScan, SpecCrawl, SpecSnippets, SpecPages, SpecReview  likewise    *)
(***************************************************************************)
EXTENDS Integers, Sequences, FiniteSets, TLC

VARIABLES
    \* ---- orchestrator / webhook (Spec) ----
    files,            \* names that are regular files in BASE_DIR (os.path.isfile)
    runner,           \* runner[r]: one activation of run_all_scripts (0 = CLI main, t = thread t)
    procs,            \* child script processes currently running: <<runner, index in SCRIPTS_TO_RUN>>
    WEBHOOK_SECRET,   \* module constant read from the environment at import
    nreq,             \* POST /monday-hook requests handled so far
    last,             \* the request handled last and what the handler did with it
    nthreads,         \* background threads started so far
    thread,           \* thread[t]: state of background thread t
    \* ---- one enrichment script (SpecScript) ----
    script,           \* which script's main() is being executed
    TARGET_ITEM_ID,   \* os.getenv("TARGET_ITEM_ID") as the script sees it
    labelcfg,         \* label names of the status column (settings_str)
    colcfg,           \* the board metadata as main() finds it: which column is absent or mistyped
    created,          \* TRUE once a create_column mutation has been issued
    board,            \* board[item]: text rendering of the script's target column
    signal,           \* signal[item]: what the web shows for the item (fixed over both runs)
    run,              \* 1 = first run, 2 = second run, 3 = both over
    spc,              \* position of main(): "start", "loop", "done", "aborted"
    todo,             \* records still to be processed by the running main()
    writes,           \* mutations issued: [run, item, ok]
    processed,        \* [run, item] pairs whose loop body was entered
    \* ---- fetch_items (SpecFetch) ----
    pages,            \* the server's pages: sequence of [n, cursor]
    fpc,              \* "init", "loop", "returned", "raised"
    cursor,           \* fetch_items' local variable cursor
    items,            \* fetch_items' local variable items
    requests,         \* cursors passed to the server, in order
    \* ---- classify_with_evidence (SpecClassify) ----
    RESI_PHRASES,     \* the phrase table for Residential in force: phrase -> weight
    cpc,              \* "pages" while the loop over pages runs, "returned" after the return
    npages,           \* pages the loop has taken so far
    resi_total,       \* accumulated scores, in thousandths
    comm_total,
    ins_total,
    saw_residential_word,
    labels,           \* the returned label set
    explicit_seen,    \* history: some page taken so far had the explicit term in its text
    \* ---- pure helper functions (one call each) ----
    fn,               \* the function called
    input,            \* its argument
    output            \* its return value

hookVars   == <<files, runner, procs, WEBHOOK_SECRET, nreq, last, nthreads, thread>>
scriptVars == <<script, TARGET_ITEM_ID, labelcfg, colcfg, created, board, signal, run, spc, todo,
                writes, processed>>
fetchVars  == <<pages, fpc, cursor, items, requests>>
classifyVars == <<RESI_PHRASES, cpc, npages, resi_total, comm_total, ins_total,
                  saw_residential_word, labels, explicit_seen>>
fnVars     == <<fn, input, output>>
pureVars   == <<classifyVars, fnVars>>
vars       == <<hookVars, scriptVars, fetchVars, pureVars>>

Max(a, b) == IF a >= b THEN a ELSE b
Range(s)  == {s[k] : k \in 1..Len(s)}

(***************************************************************************)
(* Bounds                                                                  *)
(***************************************************************************)
MaxRequests == 2      \* webhook requests per behaviour
NItems      == 2      \* records on the board
MaxPages    == 3      \* pages the board server holds
MaxSitePages == 2     \* (url, text) pages handed to classify_with_evidence
MaxWords    == 1      \* words or phrases in one page text

(***************************************************************************)
(* runner.py                                                               *)
(***************************************************************************)
SCRIPTS_TO_RUN ==
    << "guarantee.py", "followers_cnt.py", "org_keywords.py", "ad_samples.py",
       "google_ads", "fin_opt", "guarantee.py", "ins_vendor.py", "new_reviews.py",
       "bbb_check.py", "classify_target_verticals.py", "ig_active.py",
       "linkedin_active.py", "meta_ads.py", "skip_TV.py", "sponsors.py",
       "tiktok_active.py" >>

\* The files of the repository (the directory runner.py lives in).
RepoFiles ==
    { "UpdateBoard.py", "ad_samples.py", "bbb_check.py", "classify_target_verticals.py",
      "facebook_active.py", "fin_opt.py", "followers_cnt.py", "google_ads.py",
      "guarantee.py", "ins_vendor.py", "linkedin_active.py", "meta_ads.py",
      "new_reviews.py", "org_keywords.py", "runner.py", "sponsers.py",
      "tiktok_active.py", "web_traffic.py", "webhook_server.py", "yelp_reviews.py" }

\* BASE_DIR as shipped, or a deployment in which every listed name is a file
\* ("EDIT THIS LIST TO MATCH YOUR ACTUAL SCRIPTS").
Deployments == { RepoFiles, RepoFiles \cup Range(SCRIPTS_TO_RUN) }

\* result.returncode of subprocess.run: 0, a positive exit status, or -N for a
\* child killed by signal N.
ExitCodes == {0, 1, 2, -9}

Runners == 0..MaxRequests
Threads == 1..MaxRequests

IdleRunner == [pc |-> "idle", i |-> 1, worst_code |-> 0, seen |-> {}, order |-> <<>>, result |-> 0]

\* for script in SCRIPTS_TO_RUN: code = run_script(script);
\*     if code != 0: worst_code = max(worst_code, code)
Aggregate(worst, code) == IF code # 0 THEN Max(worst, code) ELSE worst

\* bookkeeping of one finished run_script call that returned `code`
AfterScript(rr, code) ==
    [rr EXCEPT !.pc = "loop", !.i = rr.i + 1,
               !.worst_code = Aggregate(rr.worst_code, code),
               !.seen = rr.seen \cup {code}]

\* run_script up to the point where it either returns 1 (script not found, or
\* subprocess.run raised) or blocks in subprocess.run on the spawned child.
run_script(r) ==
    /\ runner[r].pc = "loop"
    /\ runner[r].i <= Len(SCRIPTS_TO_RUN)
    /\ LET rr == [runner[r] EXCEPT !.order = Append(runner[r].order, runner[r].i)]
       IN  IF SCRIPTS_TO_RUN[rr.i] \notin files
           THEN /\ runner' = [runner EXCEPT ![r] = AfterScript(rr, 1)]
                /\ procs' = procs
           ELSE \E raised \in BOOLEAN :
                  IF raised
                  THEN /\ runner' = [runner EXCEPT ![r] = AfterScript(rr, 1)]
                       /\ procs' = procs
                  ELSE /\ runner' = [runner EXCEPT ![r] = [rr EXCEPT !.pc = "wait"]]
                       /\ procs' = procs \cup {<<r, rr.i>>}
    /\ UNCHANGED <<files, WEBHOOK_SECRET, nreq, last, nthreads, thread>>
    /\ UNCHANGED <<scriptVars, fetchVars, pureVars>>

\* a different orchestrator, for comparison: the loop is left at the first
\* non-zero code
mut_script_exit(r) ==
    /\ runner[r].pc = "wait"
    /\ <<r, runner[r].i>> \in procs
    /\ \E code \in ExitCodes :
         runner' = [runner EXCEPT ![r] =
                      IF code # 0
                      THEN [AfterScript(runner[r], code) EXCEPT !.i = Len(SCRIPTS_TO_RUN) + 1]
                      ELSE AfterScript(runner[r], code)]
    /\ procs' = procs \ {<<r, runner[r].i>>}
    /\ UNCHANGED <<files, WEBHOOK_SECRET, nreq, last, nthreads, thread>>
    /\ UNCHANGED <<scriptVars, fetchVars, pureVars>>

\* the child exits; subprocess.run returns and run_script returns its returncode
script_exit(r) ==
    /\ runner[r].pc = "wait"
    /\ <<r, runner[r].i>> \in procs
    /\ \E code \in ExitCodes :
         runner' = [runner EXCEPT ![r] = AfterScript(runner[r], code)]
    /\ procs' = procs \ {<<r, runner[r].i>>}
    /\ UNCHANGED <<files, WEBHOOK_SECRET, nreq, last, nthreads, thread>>
    /\ UNCHANGED <<scriptVars, fetchVars, pureVars>>

\* the for loop is exhausted: run_all_scripts returns worst_code.  In the CLI
\* (runner 0) main() passes it to sys.exit; in a background thread
\* run_enrichment_async prints it and the thread ends.
run_all_scripts_return(r) ==
    /\ runner[r].pc = "loop"
    /\ runner[r].i > Len(SCRIPTS_TO_RUN)
    /\ runner' = [runner EXCEPT ![r] = [runner[r] EXCEPT !.pc = "done",
                                                     !.result = runner[r].worst_code]]
    /\ thread' = IF r \in Threads
                 THEN [thread EXCEPT ![r] = [@ EXCEPT !.st = "done", !.ran = TRUE]]
                 ELSE thread
    /\ UNCHANGED <<files, procs, WEBHOOK_SECRET, nreq, last, nthreads>>
    /\ UNCHANGED <<scriptVars, fetchVars, pureVars>>

\* python runner.py: main() calls run_all_scripts()
main ==
    /\ runner[0].pc = "idle"
    /\ runner' = [runner EXCEPT ![0] = [@ EXCEPT !.pc = "loop"]]
    /\ UNCHANGED <<files, procs, WEBHOOK_SECRET, nreq, last, nthreads, thread>>
    /\ UNCHANGED <<scriptVars, fetchVars, pureVars>>

(***************************************************************************)
(* webhook_server.py                                                       *)
(***************************************************************************)
NoId == "none"

\* Values of the `secret` query parameter: absent (request.args.get default ""),
\* the configured one, another one.
Secrets == {"", "s3cret", "wrong"}

\* JSON values of the body's "challenge" member; "ABSENT" = no such member.
ChallengeValues == {"ABSENT", "str:tok", "str:", "int:0"}

\* Python truthiness of such a value (payload.get gives None for "ABSENT")
Truthy(v) == v \notin {"ABSENT", "str:", "int:0"}

\* Request bodies: not JSON at all; a JSON value that is not an object and is
\* falsy ([] 0 null) or truthy ([1] "x" 5); a JSON object.
Bodies ==
    { [json |-> "malformed",       challenge |-> "ABSENT", pulseId |-> NoId],
      [json |-> "falsy_nonobject", challenge |-> "ABSENT", pulseId |-> NoId],
      [json |-> "truthy_nonobject", challenge |-> "ABSENT", pulseId |-> NoId],
      [json |-> "object", challenge |-> "ABSENT",  pulseId |-> NoId],
      [json |-> "object", challenge |-> "ABSENT",  pulseId |-> "101"],
      [json |-> "object", challenge |-> "str:tok", pulseId |-> NoId],
      [json |-> "object", challenge |-> "str:",    pulseId |-> NoId],
      [json |-> "object", challenge |-> "int:0",   pulseId |-> "101"] }

NoRequest == [secret |-> "", body |-> [json |-> "none", challenge |-> "ABSENT", pulseId |-> NoId],
              status |-> 0, echo |-> "ABSENT", thread |-> 0]

NoThread == [st |-> "none", ran |-> FALSE, error |-> FALSE, scope |-> NoId]

\* a different test, for comparison: a request without `secret` passes
mut_Forbidden(secret) == WEBHOOK_SECRET # "" /\ secret \notin {"", WEBHOOK_SECRET}

\* if WEBHOOK_SECRET and secret_from_query != WEBHOOK_SECRET: -> 403
Forbidden(secret) == WEBHOOK_SECRET # "" /\ secret # WEBHOOK_SECRET

\* payload = request.get_json(force=True, silent=False) or {}; except: payload = {}
\* "dict" stands for a dict (possibly the {} substituted), "other" for a truthy
\* non-dict value, on which payload.get raises AttributeError.
PayloadKind(body) ==
    IF body.json = "truthy_nonobject" THEN "other" ELSE "dict"

\* run_enrichment_async line 51: runner.run_all_scripts(target_item_id=that_id).
\* No statement of webhook_server.py binds the name that_id (NameError), and
\* run_all_scripts() declares no parameter target_item_id (TypeError).
that_id_bound == FALSE
run_all_scripts_params == {}

\* a different thread body, for comparison: the call reaches the runner
mut_EnrichmentCallOK == TRUE

\* does the call of line 51 reach run_all_scripts?
EnrichmentCallOK == that_id_bound /\ "target_item_id" \in run_all_scripts_params

\* t = threading.Thread(target=run_enrichment_async, args=(payload,)); t.start()
StartThread(t) == [thread EXCEPT ![t] = [NoThread EXCEPT !.st = "new"]]

\* a different handler, for comparison: the enrichment call is made inside
\* the handler, before the response
mut_monday_hook(secret, body) ==
    /\ nreq < MaxRequests
    /\ nreq' = nreq + 1
    /\ IF Forbidden(secret)
       THEN /\ last' = [secret |-> secret, body |-> body, status |-> 403,
                        echo |-> "ABSENT", thread |-> 0]
            /\ UNCHANGED <<nthreads, thread>>
       ELSE IF PayloadKind(body) = "other"
       THEN /\ last' = [secret |-> secret, body |-> body, status |-> 500,
                        echo |-> "ABSENT", thread |-> 0]
            /\ UNCHANGED <<nthreads, thread>>
       ELSE IF Truthy(body.challenge)
       THEN /\ last' = [secret |-> secret, body |-> body, status |-> 200,
                        echo |-> body.challenge, thread |-> 0]
            /\ UNCHANGED <<nthreads, thread>>
       ELSE /\ nthreads' = nthreads + 1
            /\ thread' = [thread EXCEPT ![nthreads + 1] =
                             [NoThread EXCEPT !.st = "done", !.error = TRUE]]
            /\ last' = [secret |-> secret, body |-> body, status |-> 200,
                        echo |-> "ABSENT", thread |-> nthreads + 1]
    /\ UNCHANGED <<files, runner, procs, WEBHOOK_SECRET>>
    /\ UNCHANGED <<scriptVars, fetchVars, pureVars>>

\* POST /monday-hook, the whole handler
monday_hook(secret, body) ==
    /\ nreq < MaxRequests
    /\ nreq' = nreq + 1
    /\ IF Forbidden(secret)
       THEN /\ last' = [secret |-> secret, body |-> body, status |-> 403,
                        echo |-> "ABSENT", thread |-> 0]
            /\ UNCHANGED <<nthreads, thread>>
       ELSE IF PayloadKind(body) = "other"
       THEN \* payload.get raises AttributeError: unhandled, Flask answers 500
            /\ last' = [secret |-> secret, body |-> body, status |-> 500,
                        echo |-> "ABSENT", thread |-> 0]
            /\ UNCHANGED <<nthreads, thread>>
       ELSE IF Truthy(body.challenge)
       THEN /\ last' = [secret |-> secret, body |-> body, status |-> 200,
                        echo |-> body.challenge, thread |-> 0]
            /\ UNCHANGED <<nthreads, thread>>
       ELSE /\ nthreads' = nthreads + 1
            /\ thread' = StartThread(nthreads + 1)
            /\ last' = [secret |-> secret, body |-> body, status |-> 200,
                        echo |-> "ABSENT", thread |-> nthreads + 1]
    /\ UNCHANGED <<files, runner, procs, WEBHOOK_SECRET>>
    /\ UNCHANGED <<scriptVars, fetchVars, pureVars>>

\* The background thread runs run_enrichment_async: it logs the payload and
\* evaluates the call of line 51; an exception is caught and logged, the
\* thread ends; otherwise run_all_scripts starts its loop in this thread.
run_enrichment_async(t) ==
    /\ thread[t].st = "new"
    /\ IF EnrichmentCallOK
       THEN /\ thread' = [thread EXCEPT ![t] = [@ EXCEPT !.st = "orch"]]
            /\ runner' = [runner EXCEPT ![t] = [IdleRunner EXCEPT !.pc = "loop"]]
       ELSE /\ thread' = [thread EXCEPT ![t] = [@ EXCEPT !.st = "done", !.error = TRUE]]
            /\ runner' = runner
    /\ UNCHANGED <<files, procs, WEBHOOK_SECRET, nreq, last, nthreads>>
    /\ UNCHANGED <<scriptVars, fetchVars, pureVars>>

(***************************************************************************)
(* Placeholders of the other specifications' variables                     *)
(***************************************************************************)
ScriptIdle ==
    /\ script = "none" /\ TARGET_ITEM_ID = NoId /\ labelcfg = "none"
    /\ colcfg = "none" /\ created = FALSE
    /\ board = <<>> /\ signal = <<>> /\ run = 0 /\ spc = "idle"
    /\ todo = <<>> /\ writes = {} /\ processed = {}

FetchIdle ==
    /\ pages = <<>> /\ fpc = "idle" /\ cursor = "None" /\ items = <<>> /\ requests = <<>>

ClassifyIdle ==
    /\ RESI_PHRASES = <<>> /\ cpc = "idle" /\ npages = 0
    /\ resi_total = 0 /\ comm_total = 0 /\ ins_total = 0
    /\ saw_residential_word = FALSE /\ labels = {} /\ explicit_seen = FALSE

FnIdle ==
    /\ fn = "none" /\ input = "none" /\ output = "none"

PureIdle == ClassifyIdle /\ FnIdle

HookIdle ==
    /\ files = {} /\ runner = [r \in Runners |-> IdleRunner] /\ procs = {}
    /\ WEBHOOK_SECRET = "" /\ nreq = 0 /\ last = NoRequest /\ nthreads = 0
    /\ thread = [t \in Threads |-> NoThread]

(***************************************************************************)
(* Spec: orchestrator and webhook listener                                 *)
(***************************************************************************)
Init ==
    /\ files \in Deployments
    /\ runner = [r \in Runners |-> IdleRunner]
    /\ procs = {}
    /\ WEBHOOK_SECRET \in {"", "s3cret"}
    /\ nreq = 0
    /\ last = NoRequest
    /\ nthreads = 0
    /\ thread = [t \in Threads |-> NoThread]
    /\ ScriptIdle
    /\ FetchIdle
    /\ PureIdle

Next ==
    \/ main
    \/ \E r \in Runners : run_script(r)
    \/ \E r \in Runners : script_exit(r)
    \/ \E r \in Runners : run_all_scripts_return(r)
    \/ \E secret \in Secrets, body \in Bodies : monday_hook(secret, body)
    \/ \E t \in Threads : run_enrichment_async(t)

Spec == Init /\ [][Next]_vars

(***************************************************************************)
(* Claims about the orchestrator and the webhook listener (Spec)           *)
(***************************************************************************)

\* C3: run_all_scripts hands the scripts to run_script strictly in list
\* order, a runner has at most one child process and it is the script taken
\* last (the next one starts only after the previous one finished), and when
\* run_all_scripts returns every script of the list has had its turn, whatever
\* was missing, raised on launch or exited non-zero before it.
C3_ListOrder ==
    \A r \in Runners :
        /\ runner[r].order = [k \in 1..Len(runner[r].order) |-> k]
        /\ Cardinality({p \in procs : p[1] = r}) <= 1
        /\ \A p \in procs : p[1] = r =>
              /\ runner[r].pc = "wait"
              /\ p[2] = runner[r].order[Len(runner[r].order)]
        /\ runner[r].pc = "done" => Len(runner[r].order) = Len(SCRIPTS_TO_RUN)

\* a finished run of the shipped repository (some names are missing) in which
\* children also exited with 2 and were killed by a signal
C3_Witness ==
    /\ files = RepoFiles
    /\ runner[0].pc = "done"
    /\ {1, 2, -9} \subseteq runner[0].seen
    /\ Len(runner[0].order) = Len(SCRIPTS_TO_RUN)

\* C4 (as claimed): run_all_scripts returns 0 exactly when every run_script
\* call returned 0, and otherwise a non-zero code that was seen.
C4_OverallStatus ==
    \A r \in Runners :
        runner[r].pc = "done" =>
            /\ (runner[r].result = 0) <=> (runner[r].seen \subseteq {0})
            /\ ~(runner[r].seen \subseteq {0}) =>
                   (runner[r].result # 0 /\ runner[r].result \in runner[r].seen)

C6_SecretCheck ==
    [][ nreq' = nreq + 1 =>
          /\ (WEBHOOK_SECRET # "" /\ last'.secret # WEBHOOK_SECRET) =>
                /\ last'.status = 403
                /\ last'.echo = "ABSENT"
                /\ last'.thread = 0
                /\ thread' = thread
                /\ nthreads' = nthreads
          /\ WEBHOOK_SECRET = "" => last'.status # 403 ]_vars

\* a challenge handshake without the secret parameter was rejected
C6_Witness ==
    /\ WEBHOOK_SECRET # ""
    /\ last.status = 403
    /\ last.secret = ""
    /\ last.body.challenge = "str:tok"

\* C7 (as claimed): an authorized request whose JSON object has a challenge
\* member, whatever its value, is answered with exactly that value and starts
\* no background thread.
C7_ChallengeEcho ==
    (/\ last.status # 0
     /\ ~(WEBHOOK_SECRET # "" /\ last.secret # WEBHOOK_SECRET)
     /\ last.body.json = "object"
     /\ last.body.challenge # "ABSENT")
    => (/\ last.status = 200
        /\ last.echo = last.body.challenge
        /\ last.thread = 0)

\* C8: an authorized event (a JSON object without a challenge member) is
\* answered 200 by a handler step that only creates the background thread:
\* when the response is produced the thread has not run yet, and the step
\* itself runs no orchestrator and no script.
C8_AckDoesNotBlock ==
    [][ (/\ nreq' = nreq + 1
         /\ ~(WEBHOOK_SECRET # "" /\ last'.secret # WEBHOOK_SECRET)
         /\ last'.body.json = "object"
         /\ last'.body.challenge = "ABSENT")
        => (/\ last'.status = 200
            /\ last'.thread = nthreads'
            /\ nthreads' = nthreads + 1
            /\ thread'[last'.thread].st = "new"
            /\ runner' = runner
            /\ procs' = procs) ]_vars

\* the acknowledgement is out and the run triggered by it has not begun
C8_Witness ==
    /\ last.status = 200
    /\ last.thread # 0
    /\ last.body.pulseId = "101"
    /\ thread[last.thread].st = "new"

\* C9 (as claimed, in the form a finite run decides): once the background
\* thread of an accepted event has ended, it has run the orchestrator, scoped
\* to the record identifier of the event body.
C9_EventLeadsToScopedRun ==
    (last.thread # 0 /\ thread[last.thread].st = "done")
    => (/\ thread[last.thread].ran
        /\ thread[last.thread].scope = last.body.pulseId)

\* C29 (as claimed): in the repository as shipped every name of SCRIPTS_TO_RUN
\* is a file of BASE_DIR, so no runner ever stands in its loop before a name
\* for which run_script answers "Script not found" and returns 1 without
\* spawning a child.
C29_ListResolves ==
    files = RepoFiles =>
        \A r \in Runners :
            (runner[r].pc = "loop" /\ runner[r].i <= Len(SCRIPTS_TO_RUN))
                => SCRIPTS_TO_RUN[runner[r].i] \in files

\* C30 (as claimed): every answered request, whatever its body, has exactly
\* one of three outcomes: a 403 that echoes nothing and starts no thread, a 200
\* that echoes the challenge and starts no thread, or a 200 that echoes nothing
\* and has started a background thread.
C30_HandledOutcome ==
    last.status # 0 =>
        IF last.status = 403
        THEN last.echo = "ABSENT" /\ last.thread = 0
        ELSE /\ last.status = 200
             /\ (last.echo # "ABSENT") <=> (last.thread = 0)

(***************************************************************************)
(* SpecScript: the main() of one enrichment script, run twice in a row     *)
(* over the same records                                                   *)
(***************************************************************************)
Items == 1..NItems

\* it["id"] of the records fetch_items returns, in board order
ItemIds == <<"101", "102", "103", "104">>

\* values of os.getenv("TARGET_ITEM_ID"): unset, a record of the board, no record
TargetIds == {NoId, "101", "999"}

EnrichmentScripts ==
    { "guarantee.py", "followers_cnt.py", "org_keywords.py", "ad_samples.py",
      "google_ads.py", "fin_opt.py", "ins_vendor.py", "new_reviews.py",
      "bbb_check.py", "classify_target_verticals.py", "facebook_active.py",
      "linkedin_active.py", "meta_ads.py", "sponsers.py", "tiktok_active.py",
      "web_traffic.py", "yelp_reviews.py" }

\* scripts whose main() filters the fetched items by TARGET_ITEM_ID
ScopedScripts ==
    { "ad_samples.py", "fin_opt.py", "google_ads.py", "ins_vendor.py",
      "meta_ads.py", "org_keywords.py", "yelp_reviews.py" }

\* `if current.strip(): continue` before any fetch
SkipIfFilled ==
    { "guarantee.py", "followers_cnt.py", "org_keywords.py", "ad_samples.py",
      "bbb_check.py", "web_traffic.py", "yelp_reviews.py" }

\* `if current.strip() != desired:` write, compared as written
SkipIfSame == { "fin_opt.py", "sponsers.py" }

\* `if current.strip().lower() == desired.lower(): continue`
SkipIfSameLower ==
    { "google_ads.py", "ins_vendor.py", "facebook_active.py",
      "linkedin_active.py", "meta_ads.py", "tiktok_active.py" }

\* status scripts that accept the labels yes/true/active and no/false/inactive
LooseLabelScripts == { "google_ads.py", "ins_vendor.py", "bbb_check.py" }

\* status scripts that exit unless the labels are exactly "Yes" and "No"
ExactLabelScripts ==
    { "facebook_active.py", "linkedin_active.py", "meta_ads.py", "tiktok_active.py" }

\* is the mutation that writes `value` inside a try/except of the loop body?
WriteProtected(s, value) ==
    CASE s = "guarantee.py" -> FALSE
      [] s = "org_keywords.py" -> value # "None found"
      [] OTHER -> TRUE

\* the status column's labels as the board defines them
LabelConfigs == { "Yes/No", "Active/Inactive" }

Signals == { "pos", "neg", "none" }
CellTexts == { "", "filled" }
NoWrite == "NOWRITE"

\* str.lower() on the texts a status column can show
Lower(t) ==
    CASE t = "Yes" -> "yes"
      [] t = "No" -> "no"
      [] t = "Active" -> "active"
      [] t = "Inactive" -> "inactive"
      [] OTHER -> t

\* the value main() decides to write for a record, from what the web shows
\* for it; NoWrite when the loop body reaches no mutation
Desired(s, sig) ==
    CASE s \in {"guarantee.py", "org_keywords.py"} ->
            IF sig = "pos" THEN "found" ELSE "None found"
      [] s \in {"followers_cnt.py", "ad_samples.py", "classify_target_verticals.py"} ->
            IF sig = "pos" THEN "found" ELSE NoWrite
      [] s \in {"new_reviews.py", "yelp_reviews.py"} ->
            IF sig = "pos" THEN "found" ELSE IF sig = "neg" THEN "0" ELSE NoWrite
      [] s = "web_traffic.py" ->
            IF sig = "pos" THEN "found" ELSE "0"
      [] s = "bbb_check.py" ->
            IF sig = "pos" THEN "Yes" ELSE IF sig = "neg" THEN "No" ELSE NoWrite
      [] s = "fin_opt.py" ->
            IF sig = "pos" THEN "Financing available" ELSE "None"
      [] s = "sponsers.py" ->
            IF sig = "pos" THEN "found" ELSE "None"
      [] OTHER ->     \* google_ads, ins_vendor, facebook/linkedin/tiktok_active, meta_ads
            IF sig = "pos" THEN "Yes" ELSE "No"

\* the skip rule of the loop body: TRUE when the record is left alone
Skips(s, current, desired) ==
    CASE s \in SkipIfFilled -> current # ""
      [] s \in SkipIfSame -> current = desired
      [] s \in SkipIfSameLower -> Lower(current) = Lower(desired)
      [] OTHER -> FALSE     \* new_reviews, classify_target_verticals: no skip rule

\* the text the board shows for the column after the mutation succeeded: a
\* status column set by index shows the name of the label with that index
Rendered(s, cfg, value) ==
    IF s \in LooseLabelScripts \cup ExactLabelScripts /\ cfg = "Active/Inactive"
    THEN (IF value = "Yes" THEN "Active" ELSE "Inactive")
    ELSE value

\* the checks of main() before the loop that end the script with SystemExit
ConfigOK(s, cfg) == s \in ExactLabelScripts => cfg = "Yes/No"

\* the board metadata: every column the script looks up is there with the
\* type it writes ("ok"), the website column is absent ("nosite"), the target
\* column is absent ("absent"), or the target column has another type
ColumnConfigs == { "ok", "nosite", "absent", "wrongtype" }

\* scripts that look up no website column (they search by record name)
NoWebsiteScripts == { "bbb_check.py", "new_reviews.py", "yelp_reviews.py" }

\* scripts whose main() compares the target column's type before the loop
TypeCheckedScripts ==
    { "ad_samples.py", "classify_target_verticals.py", "google_ads.py",
      "ins_vendor.py", "facebook_active.py", "linkedin_active.py",
      "meta_ads.py", "tiktok_active.py" }

\* bbb_check: CREATE_IF_MISSING = True, the column is created when none is found
CreatesColumn(s, col) == s = "bbb_check.py" /\ col = "absent"

\* the column lookups and type checks of main() before the loop: FALSE when
\* one of them raises SystemExit
ColumnsOK(s, col) ==
    CASE col = "nosite" -> s \in NoWebsiteScripts
      [] col = "absent" -> s = "bbb_check.py"
      [] col = "wrongtype" -> s \notin TypeCheckedScripts
      [] OTHER -> TRUE

\* the records main() iterates over, after the TARGET_ITEM_ID filter (if any)
Selected(s, target) ==
    IF s \in ScopedScripts /\ target # NoId
    THEN SelectSeq([k \in Items |-> k], LAMBDA k : ItemIds[k] = target)
    ELSE [k \in Items |-> k]

\* main() up to the loop: configuration checks, fetch_items, scope filter
script_main_start ==
    /\ spc = "start"
    /\ IF ~ColumnsOK(script, colcfg) \/ ~ConfigOK(script, labelcfg)
       THEN spc' = "aborted" /\ todo' = <<>> /\ UNCHANGED <<colcfg, created>>
       ELSE /\ todo' = Selected(script, TARGET_ITEM_ID)
            /\ spc' = "loop"
            /\ IF CreatesColumn(script, colcfg)
               THEN colcfg' = "ok" /\ created' = TRUE
               ELSE UNCHANGED <<colcfg, created>>
    /\ UNCHANGED <<script, TARGET_ITEM_ID, labelcfg, board, signal, run, writes, processed>>
    /\ UNCHANGED <<hookVars, fetchVars, pureVars>>

\* one iteration of the loop of main(): read the column's text, apply the
\* skip rule, fetch, and issue the mutation, which succeeds or raises
script_main_item(ok) ==
    /\ spc = "loop" /\ todo # <<>>
    /\ LET k       == Head(todo)
           desired == Desired(script, signal[k])
           skip    == Skips(script, board[k], desired) \/ desired = NoWrite
       IN  /\ processed' = processed \cup {[run |-> run, item |-> k]}
           /\ IF skip
              THEN /\ ok
                   /\ UNCHANGED <<board, writes, spc>>
                   /\ todo' = Tail(todo)
              ELSE /\ writes' = writes \cup {[run |-> run, item |-> k, ok |-> ok]}
                   /\ board' = IF ok THEN [board EXCEPT ![k] = Rendered(script, labelcfg, desired)]
                                     ELSE board
                   /\ IF ok \/ WriteProtected(script, desired)
                      THEN spc' = spc /\ todo' = Tail(todo)
                      ELSE spc' = "aborted" /\ todo' = <<>>
    /\ UNCHANGED <<script, TARGET_ITEM_ID, labelcfg, colcfg, created, signal, run>>
    /\ UNCHANGED <<hookVars, fetchVars, pureVars>>

\* the loop is exhausted (or the filter left nothing): main() returns
script_main_return ==
    /\ spc = "loop" /\ todo = <<>>
    /\ spc' = "done"
    /\ UNCHANGED <<script, TARGET_ITEM_ID, labelcfg, colcfg, created, board, signal, run, todo,
                   writes, processed>>
    /\ UNCHANGED <<hookVars, fetchVars, pureVars>>

\* the same script is started again, same environment, same web content
second_run ==
    /\ spc = "done" /\ run = 1
    /\ run' = 2 /\ spc' = "start"
    /\ UNCHANGED <<script, TARGET_ITEM_ID, labelcfg, colcfg, created, board, signal, todo,
                   writes, processed>>
    /\ UNCHANGED <<hookVars, fetchVars, pureVars>>

InitScript ==
    /\ script \in EnrichmentScripts
    /\ TARGET_ITEM_ID \in TargetIds
    /\ labelcfg \in LabelConfigs
    /\ colcfg \in ColumnConfigs
    /\ created = FALSE
    /\ board \in [Items -> CellTexts]
    /\ signal \in [Items -> Signals]
    /\ run = 1 /\ spc = "start" /\ todo = <<>> /\ writes = {} /\ processed = {}
    /\ HookIdle
    /\ FetchIdle
    /\ PureIdle

NextScript ==
    \/ script_main_start
    \/ \E ok \in BOOLEAN : script_main_item(ok)
    \/ script_main_return
    \/ second_run

SpecScript == InitScript /\ [][NextScript]_vars

(***************************************************************************)
(* Claims about the enrichment scripts (SpecScript)                        *)
(***************************************************************************)

\* C1: for every enrichment script, when the first run completed with every
\* write succeeding, the second run over the same records and the same web
\* content issues no mutation at all.
C1_Idempotence ==
    (run = 2 /\ \A w \in writes : w.run = 1 => w.ok)
        => ~\E w \in writes : w.run = 2

\* C2: for every enrichment script started with TARGET_ITEM_ID set, only the
\* record whose id equals the scope is processed, no other record is
\* written, and nothing is written when no record matches.
C2_ScopedRun ==
    TARGET_ITEM_ID # NoId =>
        /\ \A p \in processed : ItemIds[p.item] = TARGET_ITEM_ID
        /\ \A w \in writes : ItemIds[w.item] = TARGET_ITEM_ID

\* C11 (as claimed): when a column the script requires is absent, or the
\* target column has a type the script does not write, main() stops before the
\* loop: no record is processed and no mutation is issued, neither a column
\* value change nor a column creation.
C11_ConfigAbort ==
    /\ ~created
    /\ (\/ colcfg = "absent"
        \/ colcfg = "nosite" /\ script \notin NoWebsiteScripts
        \/ colcfg = "wrongtype" /\ script # "bbb_check.py")
          => processed = {} /\ writes = {}

\* sys.exit status of the script process: 0 when main() returned, 1 when it
\* was left by SystemExit(message) or by an exception nobody caught
ScriptExitCode == IF spc = "done" THEN 0 ELSE 1

\* C12 (as claimed): a failed write never ends the record loop: when the
\* script is over, every record main() selected has been processed in that run.
C12_WriteFailureContinues ==
    (spc \in {"done", "aborted"} /\ \E w \in writes : w.run = run)
        => \A k \in Range(Selected(script, TARGET_ITEM_ID)) :
              [run |-> run, item |-> k] \in processed

\* C13 (as claimed): a run in which a write failed ends with a non-zero exit
\* status of the script, and so with a non-zero overall status of the
\* orchestrator that ran it.
C13_FailedWriteStatus ==
    (spc \in {"done", "aborted"} /\ \E w \in writes : w.run = run /\ ~w.ok)
        => ScriptExitCode # 0 /\ Aggregate(0, ScriptExitCode) # 0

\* C21 (as claimed): no enrichment script issues a write for a record whose
\* target column shows a non-blank text at that moment.
C21_SkipsFilled ==
    [][\A w \in writes' \ writes : board[w.item] = ""]_vars

\* C24 (as claimed): in google_ads and ins_vendor, under every accepted label
\* configuration, a record whose status was written successfully in the first
\* run is skipped by the immediately repeated run with the same detection
\* result.
C24_StatusRoundTrip ==
    (script \in {"google_ads.py", "ins_vendor.py"} /\ run = 2) =>
        \A w \in writes : (w.run = 1 /\ w.ok) =>
            ~\E w2 \in writes : w2.run = 2 /\ w2.item = w.item

(***************************************************************************)
(* SpecFetch: one call of fetch_items against a server that holds the      *)
(* board's records as a finite sequence of pages                           *)
(***************************************************************************)
PageLimit == 500      \* items_page(limit: 500, ...)

\* numbers of records a page can hold
PageSizes == {0, 2, 12, PageLimit}

\* the cursor the server hands out with page k when more pages follow
Cursors == <<"c1", "c2", "c3", "c4", "c5">>

\* what the last page carries as its cursor: null, an empty string, no key
EndCursors == {"None", "", "ABSENT"}

\* the servers: 1..MaxPages pages, a cursor on every page except the last
Servers ==
    UNION { { [k \in 1..n |-> [n      |-> sz[k],
                               cursor |-> IF k < n THEN Cursors[k] ELSE e]]
              : sz \in [1..n -> PageSizes], e \in EndCursors }
            : n \in 1..MaxPages }

\* the records of page k, in the order the server lists them
PageItems(k) == [j \in 1..pages[k].n |-> 1000 * k + j]

\* the page the server answers with, for the cursor a request carries
Serve(c) ==
    IF \E k \in 1..(Len(pages) - 1) : pages[k].cursor = c
    THEN 1 + CHOOSE k \in 1..(Len(pages) - 1) : pages[k].cursor = c
    ELSE 1

\* page.get("cursor"): None when the key is absent
GetCursor(page) == IF page.cursor = "ABSENT" THEN "None" ELSE page.cursor

\* a different loop exit, for comparison: break after the first page
mut_NotCursor(c) == TRUE

\* `not cursor`
NotCursor(c) == c \in {"None", ""}

\* items, cursor = [], None
fetch_items ==
    /\ fpc = "init"
    /\ items' = <<>> /\ cursor' = "None" /\ requests' = <<>>
    /\ fpc' = "loop"
    /\ UNCHANGED pages
    /\ UNCHANGED <<hookVars, scriptVars, pureVars>>

\* one iteration of `while True`: gql(q, {..., "cursor": cursor}), extend
\* items with the page's items, take the page's cursor, break when it is
\* empty; gql raises when the request fails
fetch_items_page(fails) ==
    /\ fpc = "loop"
    /\ requests' = Append(requests, cursor)
    /\ IF fails
       THEN fpc' = "raised" /\ UNCHANGED <<items, cursor>>
       ELSE LET k == Serve(cursor)
            IN  /\ items' = items \o PageItems(k)
                /\ cursor' = GetCursor(pages[k])
                /\ fpc' = IF NotCursor(GetCursor(pages[k])) THEN "returned" ELSE "loop"
    /\ UNCHANGED pages
    /\ UNCHANGED <<hookVars, scriptVars, pureVars>>

InitFetch ==
    /\ pages \in Servers
    /\ fpc = "init" /\ cursor = "None" /\ items = <<>> /\ requests = <<>>
    /\ HookIdle
    /\ ScriptIdle
    /\ PureIdle

NextFetch ==
    \/ fetch_items
    \/ \E fails \in BOOLEAN : fetch_items_page(fails)

SpecFetch == InitFetch /\ [][NextFetch]_vars

(***************************************************************************)
(* Claims about fetch_items (SpecFetch)                                    *)
(***************************************************************************)
RECURSIVE AllItems(_)
AllItems(n) == IF n = 0 THEN <<>> ELSE AllItems(n - 1) \o PageItems(n)

\* C10: against a server holding a finite sequence of pages, each with a
\* cursor except the last, fetch_items issues one request per page, the
\* first without a cursor and each later one with the previous page's
\* cursor, never asks again after the page whose cursor is empty or absent,
\* and returns all pages' records in page order: pages of 500/500/12 give
\* 1012 records after 3 requests.
C10_Pagination ==
    /\ Len(requests) <= Len(pages)
    /\ \A k \in 1..Len(requests) :
          requests[k] = IF k = 1 THEN "None" ELSE pages[k - 1].cursor
    /\ fpc = "returned" =>
          /\ Len(requests) = Len(pages)
          /\ items = AllItems(Len(pages))
          /\ ([k \in 1..Len(pages) |-> pages[k].n] = <<500, 500, 12>>
                => Len(items) = 1012 /\ Len(requests) = 3)

\* C10 witness: the 500/500/12 server has been read to the end
C10_Witness ==
    /\ fpc = "returned"
    /\ [k \in 1..Len(pages) |-> pages[k].n] = <<500, 500, 12>>
    /\ Len(items) = 1012
    /\ Len(requests) = 3

(***************************************************************************)
(* SpecClassify: one call of classify_with_evidence(pages).  A page text   *)
(* is given by the number of times each word or phrase occurs in it, a url *)
(* by the sequence of its path segments; scores are integers in            *)
(* thousandths.                                                            *)
(***************************************************************************)
\* a different table, for comparison: the two explicit terms weigh 1.0
mut_RESI_PHRASES_light ==
    "residential" :> 1000 @@ "homeowner(s)?" :> 1000 @@ "home services?" :> 1200 @@
    "household" :> 1000 @@ "multi-?family" :> 1300 @@ "condo(s)?" :> 1000 @@
    "apartment(s)?" :> 1000 @@ "HOA" :> 1200

\* the phrase tables: pattern (without its \b anchors) to weight
RESI_PHRASES_SHIPPED ==
    "residential" :> 2000 @@ "homeowner(s)?" :> 1500 @@ "home services?" :> 1200 @@
    "household" :> 1000 @@ "multi-?family" :> 1300 @@ "condo(s)?" :> 1000 @@
    "apartment(s)?" :> 1000 @@ "HOA" :> 1200

COMM_PHRASES ==
    "commercial" :> 2000 @@ "b2b" :> 1200 @@ "office(s)?" :> 1000 @@
    "retail" :> 1000 @@ "industr(y|ies)" :> 1200 @@ "industrial" :> 1200 @@
    "property management" :> 1500 @@ "facilit(y|ies) management" :> 1500 @@
    "enterprise" :> 1200

INS_PHRASES ==
    "insurance" :> 2000 @@ "carrier(s)?" :> 1500 @@ "TPA" :> 1500 @@
    "third[- ]party administrator(s)?" :> 1500 @@ "program work" :> 1200 @@
    "preferred vendor" :> 1200 @@ "claims?" :> 1200 @@ "CAT" :> 1000 @@
    "Xactimate" :> 1200

\* the lower-case words a pattern \b...\b matches as a whole word
Expand(pat) ==
    CASE pat = "homeowner(s)?" -> {"homeowner", "homeowners"}
      [] pat = "home services?" -> {"home service", "home services"}
      [] pat = "multi-?family" -> {"multifamily", "multi-family"}
      [] pat = "condo(s)?" -> {"condo", "condos"}
      [] pat = "apartment(s)?" -> {"apartment", "apartments"}
      [] pat = "HOA" -> {"hoa"}
      [] pat = "office(s)?" -> {"office", "offices"}
      [] pat = "industr(y|ies)" -> {"industry", "industries"}
      [] pat = "facilit(y|ies) management" -> {"facility management", "facilities management"}
      [] pat = "carrier(s)?" -> {"carrier", "carriers"}
      [] pat = "TPA" -> {"tpa"}
      [] pat = "third[- ]party administrator(s)?" ->
            {"third party administrator", "third-party administrator",
             "third party administrators", "third-party administrators"}
      [] pat = "claims?" -> {"claim", "claims"}
      [] pat = "CAT" -> {"cat"}
      [] pat = "Xactimate" -> {"xactimate"}
      [] OTHER -> {pat}

\* the words and phrases page texts are made of
Words ==
    { "Residential", "homeowners", "household", "property management", "office",
      "CAT", "nonresidential" }

\* re.I: the lower-case form of a word of a page text
LowerWord(w) ==
    CASE w = "Residential" -> "residential"
      [] w = "CAT" -> "cat"
      [] OTHER -> w

RECURSIVE WordCount(_, _)
WordCount(txt, ws) ==
    IF ws = {} THEN 0
    ELSE LET w == CHOOSE x \in ws : TRUE IN txt[w] + WordCount(txt, ws \ {w})

\* the page texts: at most MaxWords words; the text without any word is ""
Texts == { txt \in [Words -> 0..MaxWords] : WordCount(txt, Words) <= MaxWords }

EmptyText == [w \in Words |-> 0]

\* the path segments of the page urls
Urls == { <<>>, <<"commercial">>, <<"insurance">>, <<"services", "residential">> }

\* boost by URL path hints: /residential, /commercial, /insurance,
\* /services|/industries|/markets|/sectors; factors in tenths
URL_BOOSTS ==
    << [segs |-> {"residential"}, boost |-> 15],
       [segs |-> {"commercial"}, boost |-> 15],
       [segs |-> {"insurance"}, boost |-> 12],
       [segs |-> {"services", "industries", "markets", "sectors"}, boost |-> 11] >>

AllPatterns == DOMAIN RESI_PHRASES_SHIPPED \cup DOMAIN COMM_PHRASES \cup DOMAIN INS_PHRASES

RECURSIVE Tabulate(_, _)
Tabulate(S, f) ==
    IF S = {} THEN <<>>
    ELSE LET x == CHOOSE y \in S : TRUE IN (x :> f[x]) @@ Tabulate(S \ {x}, f)

\* re.compile(pat, re.I) on the words of Words: the words each pattern matches
Matching ==
    Tabulate(AllPatterns,
             [pat \in AllPatterns |-> {w \in Words : LowerWord(w) \in Expand(pat)}])

\* len(rx.findall(text))
Hits(pat, txt) == WordCount(txt, Matching[pat])

RECURSIVE PhraseScore(_, _, _)
PhraseScore(pats, phrase_map, txt) ==
    IF pats = {} THEN 0
    ELSE LET pat == CHOOSE q \in pats : TRUE
         IN  phrase_map[pat] * Hits(pat, txt) + PhraseScore(pats \ {pat}, phrase_map, txt)

RECURSIVE Boosted(_, _, _)
Boosted(score, url, k) ==
    IF k > Len(URL_BOOSTS) THEN score
    ELSE Boosted(IF Range(url) \cap URL_BOOSTS[k].segs # {}
                 THEN (score * URL_BOOSTS[k].boost) \div 10
                 ELSE score, url, k + 1)

score_page(txt, url, phrase_map) ==
    IF txt = EmptyText THEN 0
    ELSE Boosted(PhraseScore(DOMAIN phrase_map, phrase_map, txt), url, 1)

\* the thresholds of the decision rules, in thousandths
COMM_CUTOFF == 1500
INS_CUTOFF  == 1200
RESI_CUTOFF == 1200
FALLBACK_FLOOR == 800

\* max((Residential, r), (Commercial, c), (Insurance Driven, i), key = score):
\* the first of the three with the highest score
BestLabel(r, c, i) ==
    IF r >= c /\ r >= i THEN "Residential"
    ELSE IF c >= i THEN "Commercial"
    ELSE "Insurance Driven"

\* a different rule 2, for comparison: a cutoff must be exceeded
mut_DecideLabels_strict(saw, r, c, i) ==
    LET scored == (IF saw THEN {"Residential"} ELSE {})
                     \cup (IF c > COMM_CUTOFF THEN {"Commercial"} ELSE {})
                     \cup (IF i > INS_CUTOFF THEN {"Insurance Driven"} ELSE {})
                     \cup (IF r > RESI_CUTOFF THEN {"Residential"} ELSE {})
    IN  IF scored # {} THEN scored
        ELSE IF Max(Max(r, c), i) >= FALLBACK_FLOOR THEN {BestLabel(r, c, i)}
        ELSE {}

\* different rules, for comparison: Residential comes from the fallback only
mut_DecideLabels_noresi(saw, r, c, i) ==
    LET scored == (IF c >= COMM_CUTOFF THEN {"Commercial"} ELSE {})
                     \cup (IF i >= INS_CUTOFF THEN {"Insurance Driven"} ELSE {})
    IN  IF scored # {} THEN scored
        ELSE IF Max(Max(r, c), i) >= FALLBACK_FLOOR THEN {BestLabel(r, c, i)}
        ELSE {}

\* a different rule 3, for comparison: the fallback has no floor
mut_DecideLabels_nofloor(saw, r, c, i) ==
    LET scored == (IF saw THEN {"Residential"} ELSE {})
                     \cup (IF c >= COMM_CUTOFF THEN {"Commercial"} ELSE {})
                     \cup (IF i >= INS_CUTOFF THEN {"Insurance Driven"} ELSE {})
                     \cup (IF r >= RESI_CUTOFF THEN {"Residential"} ELSE {})
    IN  IF scored # {} THEN scored ELSE {BestLabel(r, c, i)}

\* decision rules 1-3 of classify_with_evidence
DecideLabels(saw, r, c, i) ==
    LET scored == (IF saw THEN {"Residential"} ELSE {})
                     \cup (IF c >= COMM_CUTOFF THEN {"Commercial"} ELSE {})
                     \cup (IF i >= INS_CUTOFF THEN {"Insurance Driven"} ELSE {})
                     \cup (IF r >= RESI_CUTOFF THEN {"Residential"} ELSE {})
    IN  IF scored # {} THEN scored
        ELSE IF Max(Max(r, c), i) >= FALLBACK_FLOOR THEN {BestLabel(r, c, i)}
        ELSE {}

\* the whole-word, case-insensitive explicit terms of a page text
HasExplicitTerm(txt) ==
    \E w \in Words : txt[w] > 0 /\ LowerWord(w) \in {"residential", "homeowner", "homeowners"}

\* one iteration of `for url, txt in pages`
classify_page(url, txt) ==
    /\ cpc = "pages" /\ npages < MaxSitePages
    /\ npages' = npages + 1
    /\ explicit_seen' = (explicit_seen \/ HasExplicitTerm(txt))
    /\ IF txt = EmptyText
       THEN UNCHANGED <<saw_residential_word, resi_total, comm_total, ins_total>>
       ELSE /\ saw_residential_word' =
                 (saw_residential_word \/ Hits("residential", txt) > 0
                                       \/ Hits("homeowner(s)?", txt) > 0)
            /\ resi_total' = resi_total + score_page(txt, url, RESI_PHRASES)
            /\ comm_total' = comm_total + score_page(txt, url, COMM_PHRASES)
            /\ ins_total' = ins_total + score_page(txt, url, INS_PHRASES)
    /\ UNCHANGED <<RESI_PHRASES, cpc, labels, fnVars>>
    /\ UNCHANGED <<hookVars, scriptVars, fetchVars>>

\* the loop is over: the decision rules, then return labels
classify_with_evidence ==
    /\ cpc = "pages"
    /\ labels' = DecideLabels(saw_residential_word, resi_total, comm_total, ins_total)
    /\ cpc' = "returned"
    /\ UNCHANGED <<RESI_PHRASES, npages, resi_total, comm_total, ins_total,
                   saw_residential_word, explicit_seen, fnVars>>
    /\ UNCHANGED <<hookVars, scriptVars, fetchVars>>

InitClassify ==
    /\ RESI_PHRASES = RESI_PHRASES_SHIPPED
    /\ cpc = "pages" /\ npages = 0
    /\ resi_total = 0 /\ comm_total = 0 /\ ins_total = 0
    /\ saw_residential_word = FALSE /\ labels = {} /\ explicit_seen = FALSE
    /\ FnIdle
    /\ HookIdle
    /\ ScriptIdle
    /\ FetchIdle

NextClassify ==
    \/ \E url \in Urls, txt \in Texts : classify_page(url, txt)
    \/ classify_with_evidence

SpecClassify == InitClassify /\ [][NextClassify]_vars

(***************************************************************************)
(* Claims about classify_with_evidence (SpecClassify)                      *)
(***************************************************************************)

\* C14: a label whose accumulated total is greater than or equal to its
\* cutoff is in the returned set, also when the total equals the cutoff:
\* Commercial at 1.5, Insurance Driven at 1.2, Residential at 1.2.
C14_CutoffInclusive ==
    cpc = "returned" =>
        /\ comm_total >= COMM_CUTOFF => "Commercial" \in labels
        /\ ins_total >= INS_CUTOFF => "Insurance Driven" \in labels
        /\ resi_total >= RESI_CUTOFF => "Residential" \in labels

\* C14 witness: two totals sit exactly on their cutoffs, no explicit term
\* was seen, and both labels are returned
C14_Witness ==
    /\ cpc = "returned" /\ ~saw_residential_word
    /\ comm_total = COMM_CUTOFF /\ resi_total = RESI_CUTOFF
    /\ labels = {"Commercial", "Residential"}

\* C14 witness of the third cutoff: Insurance Driven at exactly 1.2
C14_WitnessInsurance ==
    cpc = "returned" /\ ins_total = INS_CUTOFF /\ "Insurance Driven" \in labels

C27_ExplicitRuleRedundant ==
    saw_residential_word =>
        /\ resi_total >= RESI_CUTOFF
        /\ DecideLabels(TRUE, resi_total, comm_total, ins_total)
              = DecideLabels(FALSE, resi_total, comm_total, ins_total)

\* C27 witness: the flag was set by a page (one explicit term under a url
\* without boost) and the labels were returned
C27_Witness ==
    /\ cpc = "returned" /\ saw_residential_word
    /\ resi_total = 1500
    /\ "Residential" \in labels

\* C16: without an explicit term and with every total below its cutoff, the
\* returned set is empty when the highest total is below the 0.8 floor, and
\* otherwise holds exactly one label, one with the highest total.
C16_Fallback ==
    (/\ cpc = "returned" /\ ~explicit_seen
     /\ comm_total < COMM_CUTOFF /\ ins_total < INS_CUTOFF /\ resi_total < RESI_CUTOFF)
        => LET best == Max(Max(resi_total, comm_total), ins_total)
               total == "Residential" :> resi_total @@ "Commercial" :> comm_total
                           @@ "Insurance Driven" :> ins_total
           IN  IF best < FALLBACK_FLOOR THEN labels = {}
               ELSE \E l \in DOMAIN total : labels = {l} /\ total[l] = best

\* C16 witness: the fallback returned the one label with the highest total,
\* another label having a lower total at or above the floor
C16_Witness ==
    /\ cpc = "returned" /\ ~explicit_seen
    /\ resi_total = 1000 /\ comm_total = 1200 /\ ins_total = 0
    /\ labels = {"Commercial"}

(***************************************************************************)
(* SpecDomain: one call of a registrable-domain routine.  A string is the  *)
(* sequence of its characters; the scheme prefix, the port digits and the  *)
(* path are kept as one element each.                                      *)
(***************************************************************************)
DomainRoutines ==
    { "google_ads.registrable_domain_from_url", "meta_ads.registrable_domain",
      "tiktok_active.registrable_domain" }

\* the hosts H the urls are built from
Hosts ==
    { <<"e", "x", "a", "m", "p", "l", "e", ".", "c", "o", "m">>,
      <<"E", "x", "a", "m", "p", "l", "e", ".", "c", "o", "m">>,
      <<"E", "X", "A", "M", "P", "L", "E", ".", "c", "o", "m">>,
      <<"w", "e", "b", ".", "c", "o", "m">>,
      <<"s", "h", "o", "p", ".", "w", "e", "b", ".", "c", "o", "m">> }

\* the public suffixes tldextract knows among the hosts above
Suffixes == { <<"c", "o", "m">> }

\* str.lower() on one character
LowerChar(ch) ==
    CASE ch = "E" -> "e" [] ch = "X" -> "x" [] ch = "A" -> "a" [] ch = "M" -> "m"
      [] ch = "P" -> "p" [] ch = "L" -> "l" [] ch = "K" -> "k" [] ch = "N" -> "n"
      [] ch = "I" -> "i" [] ch = "F" -> "f" [] OTHER -> ch

LowerStr(str) == [k \in 1..Len(str) |-> LowerChar(str[k])]

\* the url strings: [scheme]["www."]H[":8080"]["/path"]
UrlForms ==
    [scheme : {"", "http://", "https://"}, www : BOOLEAN, host : Hosts,
     port : {"", "8080"}, path : {"", "/path"}]

UrlString(f) ==
    (IF f.scheme = "" THEN <<>> ELSE <<f.scheme>>)
      \o (IF f.www THEN <<"w", "w", "w", ".">> ELSE <<>>)
      \o f.host
      \o (IF f.port = "" THEN <<>> ELSE <<":", f.port>>)
      \o (IF f.path = "" THEN <<>> ELSE <<f.path>>)

\* s.startswith(prefix)
StartsWith(str, prefix) ==
    Len(str) >= Len(prefix) /\ SubSeq(str, 1, Len(prefix)) = prefix

\* the part of str before the first element of stops (all of it if there is none)
Before(str, stops) ==
    IF \E k \in 1..Len(str) : str[k] \in stops
    THEN SubSeq(str, 1, (CHOOSE k \in 1..Len(str) :
                            str[k] \in stops /\ \A j \in 1..(k - 1) : str[j] \notin stops) - 1)
    ELSE str

\* urlparse(s).netloc for s = scheme://netloc[/path]
Netloc(str) == Before(Tail(str), {"/path"})

\* str.lstrip(chars)
RECURSIVE LStrip(_, _)
LStrip(str, chars) ==
    IF str # <<>> /\ Head(str) \in chars THEN LStrip(Tail(str), chars) ELSE str

\* s.split(".")
RECURSIVE SplitDots(_)
SplitDots(str) ==
    IF \E k \in 1..Len(str) : str[k] = "."
    THEN <<Before(str, {"."})>> \o SplitDots(SubSeq(str, Len(Before(str, {"."})) + 2, Len(str)))
    ELSE <<str>>

\* tldextract.extract(host): the registered name and the public suffix
TldExtract(host) ==
    LET parts == SplitDots(host)
        n     == Len(parts)
    IN  IF parts[n] \in Suffixes
        THEN [domain |-> IF n >= 2 THEN parts[n - 1] ELSE <<>>, suffix |-> parts[n]]
        ELSE [domain |-> parts[n], suffix |-> <<>>]

\* host.startswith("www.") -> host[4:]   (google_ads)
StripWwwPrefix(host) ==
    IF StartsWith(host, <<"w", "w", "w", ".">>) THEN SubSeq(host, 5, Len(host)) ELSE host

\* host.lstrip("www.")   (meta_ads, tiktok_active)
LStripWww(host) == LStrip(host, {"w", "."})

\* the routine `routine` applied to the url string u
RegistrableDomain(routine, u) ==
    IF u = <<>> THEN <<>>
    ELSE LET s0   == IF Head(u) \in {"http://", "https://"} THEN u ELSE <<"https://">> \o u
             host == Before(LowerStr(Netloc(s0)), {":"})
             bare == IF routine = "google_ads.registrable_domain_from_url"
                     THEN StripWwwPrefix(host)
                     ELSE LStripWww(host)
             ext  == TldExtract(bare)
         IN  IF ext.domain # <<>> /\ ext.suffix # <<>>
             THEN ext.domain \o <<".">> \o ext.suffix
             ELSE bare

\* the eTLD+1 of a host: its registered name and public suffix, lower-cased
ETLD1(host) ==
    LET parts == SplitDots(LowerStr(host))
    IN  parts[Len(parts) - 1] \o <<".">> \o parts[Len(parts)]

registrable_domain ==
    /\ fn \in DomainRoutines /\ ~output.done
    /\ output' = [done |-> TRUE, value |-> RegistrableDomain(fn, UrlString(input))]
    /\ UNCHANGED <<fn, input, classifyVars>>
    /\ UNCHANGED <<hookVars, scriptVars, fetchVars>>

InitDomain ==
    /\ fn \in DomainRoutines
    /\ input \in UrlForms
    /\ output = [done |-> FALSE, value |-> <<>>]
    /\ ClassifyIdle
    /\ HookIdle
    /\ ScriptIdle
    /\ FetchIdle

NextDomain == registrable_domain

SpecDomain == InitDomain /\ [][NextDomain]_vars

\* C17 (as claimed): every registrable-domain routine returns the eTLD+1 of
\* the host H for each of the inputs H, https://www.H/path and http://H:8080/x
\* (and every other mix of scheme, www., port and path), never dropping a
\* character of H's own first label.
C17_RegistrableDomain ==
    output.done => output.value = ETLD1(input.host)


(***************************************************************************)
(* followers_cnt.py: parse_number_token.  A token is a sequence of         *)
(* one-character strings.  SpecNumber applies the function once to a token *)
(* drawn from every string of at most MaxTokenLen characters of TokenChars *)
(* and from NamedTokens.                                                   *)
(***************************************************************************)
MaxTokenLen == 3

TokenChars == { "1", "5", ",", ".", "k", "M", "a", " " }

NamedTokens ==
    { <<"1", "2", ".", "3", "K">>, <<"1", "." , "2", "M">>,
      <<"1", "2", "3", ",", "4", "5", "6">>,
      <<"n", "a", "n">>, <<"N", "a", "N">>, <<"i", "n", "f">>,
      <<"i", "n", "f", "K">>, <<"a", "b", "c">> }

Tokens ==
    UNION { [1..n -> TokenChars] : n \in 0..MaxTokenLen } \cup NamedTokens

DigitValue ==
    "0" :> 0 @@ "1" :> 1 @@ "2" :> 2 @@ "3" :> 3 @@ "4" :> 4 @@
    "5" :> 5 @@ "6" :> 6 @@ "7" :> 7 @@ "8" :> 8 @@ "9" :> 9

DecimalDigits == DOMAIN DigitValue

\* raw.strip(): leading and trailing white space removed
RECURSIVE Strip(_)
Strip(str) ==
    IF str = <<>> THEN str
    ELSE IF Head(str) = " " THEN Strip(Tail(str))
    ELSE IF str[Len(str)] = " " THEN Strip(SubSeq(str, 1, Len(str) - 1))
    ELSE str

\* raw.replace(",", "")
RemoveCommas(str) == SelectSeq(str, LAMBDA ch : ch # ",")

RECURSIVE Pow10(_)
Pow10(n) == IF n = 0 THEN 1 ELSE 10 * Pow10(n - 1)

\* the integer written by a sequence of decimal digits (0 for none)
RECURSIVE DigitsValue(_)
DigitsValue(ds) ==
    IF ds = <<>> THEN 0
    ELSE 10 * DigitsValue(SubSeq(ds, 1, Len(ds) - 1)) + DigitValue[ds[Len(ds)]]

\* digits with at most one "." and at least one digit
IsDecimal(str) ==
    /\ \A k \in 1..Len(str) : str[k] \in DecimalDigits \cup {"."}
    /\ Cardinality({ k \in 1..Len(str) : str[k] = "." }) <= 1
    /\ \E k \in 1..Len(str) : str[k] \in DecimalDigits

\* the number of digits after the "."
FractionLen(str) ==
    IF \E k \in 1..Len(str) : str[k] = "."
    THEN Len(str) - (CHOOSE k \in 1..Len(str) : str[k] = ".")
    ELSE 0

\* float(str) on the characters modelled here: a decimal numeral is the
\* rational num/den, "nan" and "inf" in any case are the two specials, and
\* anything else is a ValueError.  (Signs, exponents and underscores are not
\* among the modelled characters.)
Float(str) ==
    IF IsDecimal(str)
    THEN [kind |-> "num",
          num  |-> DigitsValue(SelectSeq(str, LAMBDA ch : ch \in DecimalDigits)),
          den  |-> Pow10(FractionLen(str))]
    ELSE IF LowerStr(str) = <<"n", "a", "n">> THEN [kind |-> "nan", num |-> 0, den |-> 1]
    ELSE IF LowerStr(str) = <<"i", "n", "f">> THEN [kind |-> "inf", num |-> 0, den |-> 1]
    ELSE [kind |-> "ValueError", num |-> 0, den |-> 1]

\* round(num/den): to the nearest integer, a tie to the even one.  Within
\* the modelled tokens the double product base * multiplier rounds to the
\* same integer as the exact product.
Round(num, den) ==
    LET q == num \div den
        r == num % den
    IN  IF 2 * r < den THEN q
        ELSE IF 2 * r > den THEN q + 1
        ELSE IF q % 2 = 0 THEN q ELSE q + 1

NumberNone == [kind |-> "None", value |-> 0]

\* parse_number_token(raw): kind "int" with the value, kind "None", or
\* kind "raise" when an exception leaves the function
ParseNumberToken(raw) ==
    LET raw1 == Strip(raw)
    IN  IF raw1 = <<>> THEN NumberNone
        ELSE LET last_      == LowerChar(raw1[Len(raw1)])
                 multiplier == IF last_ = "k" THEN 1000
                               ELSE IF last_ = "m" THEN 1000000 ELSE 1
                 raw2       == IF last_ \in {"k", "m"}
                               THEN SubSeq(raw1, 1, Len(raw1) - 1) ELSE raw1
                 raw_clean  == Strip(RemoveCommas(raw2))
                 base       == Float(raw_clean)
             IN  IF base.kind = "ValueError" THEN NumberNone
                 ELSE IF base.kind = "num"
                 THEN [kind |-> "int", value |-> Round(base.num * multiplier, base.den)]
                 ELSE [kind |-> "raise", value |-> 0]

parse_number_token ==
    /\ fn = "followers_cnt.parse_number_token" /\ ~output.done
    /\ output' = [done |-> TRUE] @@ ParseNumberToken(input)
    /\ UNCHANGED <<fn, input, classifyVars>>
    /\ UNCHANGED <<hookVars, scriptVars, fetchVars>>

InitNumber ==
    /\ fn = "followers_cnt.parse_number_token"
    /\ input \in Tokens
    /\ output = [done |-> FALSE] @@ NumberNone
    /\ ClassifyIdle
    /\ HookIdle
    /\ ScriptIdle
    /\ FetchIdle

NextNumber == parse_number_token

SpecNumber == InitNumber /\ [][NextNumber]_vars

\* a decimal token: after the surrounding white space, one trailing k/K/m/M
\* and the commas are taken away, a decimal numeral remains
IsDecimalToken(tok) ==
    LET t1 == Strip(tok)
        t2 == IF t1 # <<>> /\ t1[Len(t1)] \in {"k", "K", "m", "M"}
              THEN SubSeq(t1, 1, Len(t1) - 1) ELSE t1
    IN  IsDecimal(Strip(RemoveCommas(t2)))

\* C18 (as claimed): parse_number_token gives 12300 for "12.3K", 1200000 for
\* "1.2M" and 123456 for "123,456", an integer for every decimal token, and
\* None, without raising, for every empty or non-numeric token.
C18_NumberToken ==
    output.done =>
        /\ input = <<"1", "2", ".", "3", "K">> => output.kind = "int" /\ output.value = 12300
        /\ input = <<"1", ".", "2", "M">> => output.kind = "int" /\ output.value = 1200000
        /\ input = <<"1", "2", "3", ",", "4", "5", "6">>
              => output.kind = "int" /\ output.value = 123456
        /\ IsDecimalToken(input) => output.kind = "int"
        /\ ~IsDecimalToken(input) => output.kind = "None"


(***************************************************************************)
(* Topic-link discovery: classify_target_verticals.discover_extra_links,   *)
(* fin_opt.find_internal_financing_pages and                               *)
(* sponsers.find_internal_sponsorship_pages.  A home page is the sequence  *)
(* of its <a href> anchors.  An anchor carries its absolute url, whether   *)
(* that url is on the site's own host, whether one of the routine's        *)
(* keywords occurs in it, and whether its href starts with "#".            *)
(***************************************************************************)
MaxAnchors == 4

MAX_INTERNAL_LINKS_PER_SITE == 8

MAX_EXTRA_PAGES == 5

LinkRoutines ==
    { "classify_target_verticals.discover_extra_links",
      "fin_opt.find_internal_financing_pages",
      "sponsers.find_internal_sponsorship_pages" }

\* the caps: the two shipped values and three smaller positive ones
Caps == { 1, 2, 3, MAX_EXTRA_PAGES, MAX_INTERNAL_LINKS_PER_SITE }

TopicAnchor(u) == [url |-> u, samehost |-> TRUE, topic |-> TRUE, frag |-> FALSE]

AnchorKinds ==
    { TopicAnchor("/a"), TopicAnchor("/b"), TopicAnchor("/c"), TopicAnchor("/d"),
      [url |-> "/contact", samehost |-> TRUE, topic |-> FALSE, frag |-> FALSE],
      [url |-> "//other/a", samehost |-> FALSE, topic |-> TRUE, frag |-> FALSE],
      [url |-> "#a", samehost |-> TRUE, topic |-> TRUE, frag |-> TRUE] }

\* two home pages with ten anchors that every routine accepts
TenDistinct ==
    << TopicAnchor("/a"), TopicAnchor("/b"), TopicAnchor("/c"), TopicAnchor("/d"),
       TopicAnchor("/e"), TopicAnchor("/f"), TopicAnchor("/g"), TopicAnchor("/h"),
       TopicAnchor("/i"), TopicAnchor("/j") >>

TenRepeating ==
    << TopicAnchor("/a"), TopicAnchor("/a"), TopicAnchor("/b"), TopicAnchor("/a"),
       TopicAnchor("/c"), TopicAnchor("/b"), TopicAnchor("/d"), TopicAnchor("/e"),
       TopicAnchor("/c"), TopicAnchor("/f") >>

HomePages ==
    UNION { [1..n -> AnchorKinds] : n \in 0..MaxAnchors } \cup { TenDistinct, TenRepeating }

\* the anchors a routine keeps: discover_extra_links has no "#" test
Accepts(routine, a) ==
    IF routine = "classify_target_verticals.discover_extra_links"
    THEN a.samehost /\ a.topic
    ELSE ~a.frag /\ a.samehost /\ a.topic

\* the for loop of discover_extra_links from anchor i on; seen is Range(out)
RECURSIVE ExtraLinksLoop(_, _, _, _)
ExtraLinksLoop(anchors, i, out, cap) ==
    IF i > Len(anchors) THEN out
    ELSE IF ~Accepts("classify_target_verticals.discover_extra_links", anchors[i])
    THEN ExtraLinksLoop(anchors, i + 1, out, cap)
    ELSE IF anchors[i].url \in Range(out)
    THEN ExtraLinksLoop(anchors, i + 1, out, cap)
    ELSE LET out2 == Append(out, anchors[i].url)
         IN  IF Len(out2) >= cap THEN out2
             ELSE ExtraLinksLoop(anchors, i + 1, out2, cap)

\* the first loop of the two find_internal_* routines
Candidates(routine, anchors) ==
    LET kept == SelectSeq(anchors, LAMBDA a : Accepts(routine, a))
    IN  [k \in 1..Len(kept) |-> kept[k].url]

\* a different second loop that never breaks, for comparison
RECURSIVE mut_DedupeNoCap(_, _, _, _)
mut_DedupeNoCap(candidates, i, uniq, cap) ==
    IF i > Len(candidates) THEN uniq
    ELSE mut_DedupeNoCap(candidates, i + 1,
            IF candidates[i] \in Range(uniq) THEN uniq ELSE Append(uniq, candidates[i]), cap)

\* the second loop of the two find_internal_* routines ("Deduplicate & cap")
RECURSIVE DedupeCap(_, _, _, _)
DedupeCap(candidates, i, uniq, cap) ==
    IF i > Len(candidates) THEN uniq
    ELSE LET uniq2 == IF candidates[i] \in Range(uniq) THEN uniq
                      ELSE Append(uniq, candidates[i])
         IN  IF Len(uniq2) >= cap THEN uniq2
             ELSE DedupeCap(candidates, i + 1, uniq2, cap)

LinksPending == [done |-> FALSE, links |-> <<>>]

discover_extra_links ==
    /\ fn = "classify_target_verticals.discover_extra_links" /\ ~output.done
    /\ output' = [done |-> TRUE, links |-> ExtraLinksLoop(input.page, 1, <<>>, input.cap)]
    /\ UNCHANGED <<fn, input, classifyVars>>
    /\ UNCHANGED <<hookVars, scriptVars, fetchVars>>

find_internal_financing_pages ==
    /\ fn = "fin_opt.find_internal_financing_pages" /\ ~output.done
    /\ output' = [done |-> TRUE,
                  links |-> DedupeCap(Candidates(fn, input.page), 1, <<>>, input.cap)]
    /\ UNCHANGED <<fn, input, classifyVars>>
    /\ UNCHANGED <<hookVars, scriptVars, fetchVars>>

find_internal_sponsorship_pages ==
    /\ fn = "sponsers.find_internal_sponsorship_pages" /\ ~output.done
    /\ output' = [done |-> TRUE,
                  links |-> DedupeCap(Candidates(fn, input.page), 1, <<>>, input.cap)]
    /\ UNCHANGED <<fn, input, classifyVars>>
    /\ UNCHANGED <<hookVars, scriptVars, fetchVars>>

InitLinks ==
    /\ fn \in LinkRoutines
    /\ input \in [page : HomePages, cap : Caps]
    /\ output = LinksPending
    /\ ClassifyIdle
    /\ HookIdle
    /\ ScriptIdle
    /\ FetchIdle

NextLinks ==
    \/ discover_extra_links
    \/ find_internal_financing_pages
    \/ find_internal_sponsorship_pages

SpecLinks == InitLinks /\ [][NextLinks]_vars

\* the urls of the anchors the routine accepts, in page order
MatchingUrls == Candidates(fn, input.page)

\* the position of the first matching anchor with url u
FirstSeen(u) ==
    CHOOSE i \in 1..Len(MatchingUrls) :
        MatchingUrls[i] = u /\ \A j \in 1..(i - 1) : MatchingUrls[j] # u

\* C19: a topic-link discovery routine returns at most cap links, no url
\* twice, in the order the matching anchors first appear, and skips none:
\* the result is the first min(cap, number of distinct matching urls) distinct
\* matching urls.
C19_LinkCap ==
    output.done =>
        LET L == output.links
        IN  /\ Len(L) <= input.cap
            /\ \A k \in 1..Len(L) : L[k] \in Range(MatchingUrls)
            /\ \A j, k \in 1..Len(L) : j < k => FirstSeen(L[j]) < FirstSeen(L[k])
            /\ \A u \in Range(MatchingUrls) :
                  (L # <<>> /\ FirstSeen(u) < FirstSeen(L[Len(L)])) => u \in Range(L)
            /\ Len(L) = IF Cardinality(Range(MatchingUrls)) < input.cap
                        THEN Cardinality(Range(MatchingUrls)) ELSE input.cap

\* C19 witness: a cap of 3, ten matching anchors with repeats among them, and
\* exactly the first three distinct urls returned.
C19_Witness ==
    /\ output.done
    /\ input.cap = 3
    /\ Len(MatchingUrls) = 10
    /\ Cardinality(Range(MatchingUrls)) > 3
    /\ \E j, k \in 1..10 : j < k /\ MatchingUrls[j] = MatchingUrls[k]
    /\ output.links = <<"/a", "/b", "/c">>


(***************************************************************************)
(* Website extraction from the website column's value: one routine per     *)
(* script that reads a website.  A column value has the raw JSON string    *)
(* `value` and the text rendering `text`.                                  *)
(***************************************************************************)
\* value.url first, then the stripped text
TextFallbackRoutines ==
    { "ad_samples.extract_website_from_link_cv", "web_traffic.extract_website_from_link_cv",
      "followers_cnt.extract_website_from_link_cv", "org_keywords.extract_website_from_link_cv",
      "google_ads.link_url_from_cv", "ins_vendor.extract_website_url",
      "sponsers.extract_website", "fin_opt.extract_website" }

\* value.url first, then the first http(s) url found in the text
\* (extract_website_from_item then searches every column text of the item the
\* same way; the item modelled here has the website column only)
UrlInTextRoutines ==
    { "facebook_active.extract_url_from_cv", "linkedin_active.extract_url_from_cv",
      "tiktok_active.extract_url_from_cv", "meta_ads.extract_url_from_cv",
      "classify_target_verticals.extract_website_from_item" }

\* the routines that take no column type
UntypedRoutines ==
    { "ad_samples.extract_website_from_link_cv", "web_traffic.extract_website_from_link_cv",
      "followers_cnt.extract_website_from_link_cv", "org_keywords.extract_website_from_link_cv",
      "guarantee.extract_website" }

\* the routines that return None, not "", for no website
OptionalRoutines ==
    { "followers_cnt.extract_website_from_link_cv", "org_keywords.extract_website_from_link_cv",
      "guarantee.extract_website" }

WebsiteRoutines ==
    TextFallbackRoutines \cup UrlInTextRoutines \cup { "guarantee.extract_website" }

\* cv["value"]: None, or a string
RawValues ==
    { "None", "", "not json", "5", "{}", "{url: ''}", "{url: 'https://site.com'}" }

\* cv["text"]
TextRenderings ==
    { "", "example.com", "https://example.com", " https://example.com ",
      "Website - https://example.com" }

ColumnTypes == { "link", "text" }

\* j = json.loads(raw); j.get("url"): "raise" when either raises, "None"
\* when the object has no url key
JsonUrl(raw) ==
    CASE raw = "{}" -> "None"
      [] raw = "{url: ''}" -> ""
      [] raw = "{url: 'https://site.com'}" -> "https://site.com"
      [] OTHER -> "raise"

\* t.strip()
StripText(t) == IF t = " https://example.com " THEN "https://example.com" ELSE t

\* URL_IN_TEXT_RE.search(t): the match, "" for no match
UrlInText(t) ==
    IF t \in { "https://example.com", " https://example.com ", "Website - https://example.com" }
    THEN "https://example.com"
    ELSE ""

\* the value.url branch: the url returned from inside the try, "" when the
\* branch falls through
StructuredUrl(raw) ==
    IF raw \in { "None", "" } THEN ""
    ELSE IF JsonUrl(raw) \in { "raise", "None", "" } THEN "" ELSE StripText(JsonUrl(raw))

\* guarantee.extract_website
ExtractGuarantee(cv) ==
    IF ~cv.present THEN "None"
    ELSE IF StructuredUrl(cv.value) # "" THEN StructuredUrl(cv.value)
    ELSE "None"

\* the routine applied to a column value and the column's type
ExtractWebsite(routine, cv, col_type) ==
    LET none == IF routine \in OptionalRoutines THEN "None" ELSE ""
        text == IF routine = "fin_opt.extract_website" THEN cv.text ELSE StripText(cv.text)
    IN  IF routine = "guarantee.extract_website" THEN ExtractGuarantee(cv)
        ELSE IF ~cv.present THEN none
        ELSE IF routine \notin UntypedRoutines /\ col_type # "link"
        THEN text
        ELSE IF StructuredUrl(cv.value) # "" THEN StructuredUrl(cv.value)
        ELSE IF routine \in UrlInTextRoutines THEN UrlInText(text)
        ELSE IF text = "" THEN none ELSE text

ColumnValues ==
    [present : {TRUE}, value : RawValues, text : TextRenderings]
        \cup { [present |-> FALSE, value |-> "None", text |-> ""] }

WebsitePending == [done |-> FALSE, value |-> ""]

extract_website ==
    /\ fn \in WebsiteRoutines /\ ~output.done
    /\ output' = [done |-> TRUE, value |-> ExtractWebsite(fn, input.cv, input.col_type)]
    /\ UNCHANGED <<fn, input, classifyVars>>
    /\ UNCHANGED <<hookVars, scriptVars, fetchVars>>

InitWebsite ==
    /\ fn \in WebsiteRoutines
    /\ input \in [cv : ColumnValues, col_type : ColumnTypes]
    /\ output = WebsitePending
    /\ ClassifyIdle
    /\ HookIdle
    /\ ScriptIdle
    /\ FetchIdle

NextWebsite == extract_website

SpecWebsite == InitWebsite /\ [][NextWebsite]_vars

\* the raw value is present and parses to an object with a non-empty url
HasStructuredUrl(raw) ==
    raw \notin { "None", "" } /\ JsonUrl(raw) \notin { "raise", "None", "" }

\* C20 (as claimed): for a link column, every script's website extraction
\* returns the url of the raw value when the raw value is present and parses
\* with a non-empty url, and otherwise falls back to the text rendering: with
\* a non-empty text it never reports no website.
C20_WebsiteExtraction ==
    (output.done /\ input.cv.present /\ input.col_type = "link") =>
        IF HasStructuredUrl(input.cv.value)
        THEN output.value = JsonUrl(input.cv.value)
        ELSE \/ StripText(input.cv.text) = ""
             \/ /\ output.value \notin { "", "None" }
                /\ output.value \in { input.cv.text, StripText(input.cv.text),
                                      UrlInText(input.cv.text) }


(***************************************************************************)
(* Site scans: ins_vendor.site_has_insurance_vendor and                    *)
(* fin_opt.detect_financing.  A served page has its signal (a phrase of    *)
(* the topic occurs in its text), the <a href> anchors of its markup, and  *)
(* the anchors that occur in it as escaped text (&lt;a href=...&gt;).      *)
(***************************************************************************)
MaxSiteLinks == 2

INS_MAX_EXTRA_PAGES == 3

ScanRoutines == { "ins_vendor.site_has_insurance_vendor", "fin_opt.detect_financing" }

\* the internal pages a home page can link to, all with a topic word in the url
InternalUrls == { "/a", "/b" }

LinkLists == UNION { [1..n -> InternalUrls] : n \in 0..MaxSiteLinks }

HomeResponses ==
    [ok : BOOLEAN, signal : BOOLEAN, anchors : LinkLists, escaped : LinkLists]

SubResponses == [InternalUrls -> [ok : BOOLEAN, signal : BOOLEAN]]

\* fetch_page / fetch_page_text: soup.get_text(" ", strip=True) keeps the
\* text nodes and drops every tag, so the string returned has the page's
\* phrases, none of its markup anchors, and its escaped anchors unescaped;
\* None (ok FALSE) when the request fails
FetchText(resp) ==
    [ok |-> resp.ok, signal |-> resp.ok /\ resp.signal,
     anchors |-> IF resp.ok THEN resp.escaped ELSE <<>>]

\* BeautifulSoup(text, "lxml").find_all("a", href=True) on a fetched string,
\* then the same-site and topic-word tests, as anchors of SpecLinks
AnchorsOf(text) == [k \in 1..Len(text.anchors) |-> TopicAnchor(text.anchors[k])]

ScanCap(routine) ==
    IF routine = "ins_vendor.site_has_insurance_vendor"
    THEN INS_MAX_EXTRA_PAGES ELSE MAX_EXTRA_PAGES

\* the loop over the extra pages from page i on: fetched so far, and the
\* result once a page shows the signal or the list is exhausted
RECURSIVE ScanExtraPages(_, _, _, _)
ScanExtraPages(urls, i, subs, fetched) ==
    IF i > Len(urls) THEN [positive |-> FALSE, fetched |-> fetched]
    ELSE LET txt == FetchText(subs[urls[i]] @@ [escaped |-> <<>>])
         IN  IF txt.signal THEN [positive |-> TRUE, fetched |-> Append(fetched, urls[i])]
             ELSE ScanExtraPages(urls, i + 1, subs, Append(fetched, urls[i]))

\* the routine applied to a site: positive, and the urls it fetched
ScanSite(routine, site) ==
    IF ~site.valid THEN [positive |-> FALSE, fetched |-> <<>>]
    ELSE LET home == FetchText(site.home)
         IN  IF home.signal THEN [positive |-> TRUE, fetched |-> <<"/">>]
             ELSE IF ~home.ok THEN [positive |-> FALSE, fetched |-> <<"/">>]
             ELSE ScanExtraPages(
                      DedupeCap(Candidates("fin_opt.find_internal_financing_pages",
                                           AnchorsOf(home)), 1, <<>>, ScanCap(routine)),
                      1, site.subs, <<"/">>)

site_has_insurance_vendor ==
    /\ fn = "ins_vendor.site_has_insurance_vendor" /\ ~output.done
    /\ output' = [done |-> TRUE] @@ ScanSite(fn, input)
    /\ UNCHANGED <<fn, input, classifyVars>>
    /\ UNCHANGED <<hookVars, scriptVars, fetchVars>>

detect_financing ==
    /\ fn = "fin_opt.detect_financing" /\ ~output.done
    /\ output' = [done |-> TRUE] @@ ScanSite(fn, input)
    /\ UNCHANGED <<fn, input, classifyVars>>
    /\ UNCHANGED <<hookVars, scriptVars, fetchVars>>

InitScan ==
    /\ fn \in ScanRoutines
    /\ input \in [valid : BOOLEAN, home : HomeResponses, subs : SubResponses]
    /\ output = [done |-> FALSE, positive |-> FALSE, fetched |-> <<>>]
    /\ ClassifyIdle
    /\ HookIdle
    /\ ScriptIdle
    /\ FetchIdle

NextScan ==
    \/ site_has_insurance_vendor
    \/ detect_financing

SpecScan == InitScan /\ [][NextScan]_vars

\* C22 (as claimed): the scan fetches the home page and at most
\* MAX_EXTRA_PAGES internal pages, and when the home page is served without a
\* signal and links (by an anchor of its markup) to an internal page that is
\* served with a signal, the result is positive.
C22_InternalPageSignal ==
    output.done =>
        /\ Len(output.fetched) <= 1 + ScanCap(fn)
        /\ (/\ input.valid /\ input.home.ok /\ ~input.home.signal
            /\ \E k \in 1..Len(input.home.anchors) :
                  LET sub == input.subs[input.home.anchors[k]]
                  IN  sub.ok /\ sub.signal)
              => output.positive


(***************************************************************************)
(* web_traffic.compute_traffic_score: the crawl loop.  The urls of a site  *)
(* are 0 (the base url) and 1..n; every fetch succeeds or fails.  The word *)
(* totals do not steer the loop and are left out.                          *)
(***************************************************************************)
MaxSiteUrls == 10

MAX_PAGES_PER_SITE == 10

\* the shapes of link graph: the home page links to every page and every
\* page links back; every page links to itself, home and the next page; every
\* page links to every page, twice
GraphKinds == { "star", "chain", "mesh" }

\* the same-site hrefs of the page at url u, in document order
Hrefs(site, u) ==
    CASE site.kind = "star" ->
            IF u = 0 THEN [k \in 1..site.n |-> k] ELSE <<0>>
      [] site.kind = "chain" ->
            IF u < site.n THEN <<u, 0, u + 1>> ELSE <<u, 0>>
      [] OTHER ->
            [k \in 1..(2 * (site.n + 1)) |-> (k - 1) % (site.n + 1)]

\* extract_internal_links: each clean url once, in first-seen order
RECURSIVE ExtractInternalLinks(_, _, _)
ExtractInternalLinks(hrefs, i, links) ==
    IF i > Len(hrefs) THEN links
    ELSE ExtractInternalLinks(hrefs, i + 1,
            IF hrefs[i] \in Range(links) THEN links ELSE Append(links, hrefs[i]))

\* for link in internal: if link not in visited and link not in to_visit: append
RECURSIVE Enqueue(_, _, _, _)
Enqueue(internal, i, visited, to_visit) ==
    IF i > Len(internal) THEN to_visit
    ELSE Enqueue(internal, i + 1, visited,
            IF internal[i] \notin visited /\ internal[i] \notin Range(to_visit)
            THEN Append(to_visit, internal[i]) ELSE to_visit)

CrawlStart ==
    [pc |-> "loop", to_visit |-> <<0>>, visited |-> {}, pages_crawled |-> 0,
     fetched |-> <<>>]

\* one iteration of the while loop; ok: fetch_html returns the page
compute_traffic_score_step(ok) ==
    /\ fn = "web_traffic.compute_traffic_score" /\ output.pc = "loop"
    /\ output.to_visit # <<>> /\ output.pages_crawled < MAX_PAGES_PER_SITE
    /\ LET url  == Head(output.to_visit)
           rest == Tail(output.to_visit)
       IN  IF url \in output.visited
           THEN ok /\ output' = [output EXCEPT !.to_visit = rest]
           ELSE IF ~ok
           THEN output' = [output EXCEPT !.to_visit = rest,
                                         !.visited = @ \cup {url},
                                         !.fetched = Append(@, url)]
           ELSE output' = [output EXCEPT
                    !.to_visit = Enqueue(ExtractInternalLinks(Hrefs(input, url), 1, <<>>),
                                         1, output.visited \cup {url}, rest),
                    !.visited = @ \cup {url},
                    !.fetched = Append(@, url),
                    !.pages_crawled = @ + 1]
    /\ UNCHANGED <<fn, input, classifyVars>>
    /\ UNCHANGED <<hookVars, scriptVars, fetchVars>>

\* the while condition is false: the score is returned
compute_traffic_score_return ==
    /\ fn = "web_traffic.compute_traffic_score" /\ output.pc = "loop"
    /\ ~(output.to_visit # <<>> /\ output.pages_crawled < MAX_PAGES_PER_SITE)
    /\ output' = [output EXCEPT !.pc = "done"]
    /\ UNCHANGED <<fn, input, classifyVars>>
    /\ UNCHANGED <<hookVars, scriptVars, fetchVars>>

InitCrawl ==
    /\ fn = "web_traffic.compute_traffic_score"
    /\ input \in [kind : GraphKinds, n : 0..MaxSiteUrls]
    /\ output = CrawlStart
    /\ ClassifyIdle
    /\ HookIdle
    /\ ScriptIdle
    /\ FetchIdle

NextCrawl ==
    \/ \E ok \in BOOLEAN : compute_traffic_score_step(ok)
    \/ compute_traffic_score_return

SpecCrawl == InitCrawl /\ [][NextCrawl]_vars

\* C23 (as claimed): the crawl issues fetches for at most MAX_PAGES_PER_SITE
\* urls of a site and for no url twice, whatever the link graph and whichever
\* fetches fail.
C23_CrawlCap ==
    /\ Len(output.fetched) <= MAX_PAGES_PER_SITE
    /\ \A j, k \in 1..Len(output.fetched) : j # k => output.fetched[j] # output.fetched[k]


(***************************************************************************)
(* Snippet extraction: guarantee.find_guarantees and                       *)
(* sponsers.detect_sponsorship_snippets with the join in sponsers.main.    *)
(* A page is the sequence of the texts of its elements (<p>, <li>,         *)
(* headings), in document order.                                           *)
(***************************************************************************)
MaxElements == 4

GUARANTEE_MAX_LEN == 240

GUARANTEE_MIN_LEN == 15

GUARANTEE_MAX_SNIPPETS == 3

SPONSOR_MAX_LEN == 300

SnippetRoutines == { "guarantee.find_guarantees", "sponsers.detect_sponsorship_snippets" }

\* the element texts, each with its length; all but "menu" and "" contain a
\* keyword of both scripts; "long 1" and "long 2" agree on their first 300
\* characters
ElementLen ==
    "" :> 0 @@ "menu" :> 4 @@ "guarantee" :> 9 @@ "text A" :> 40 @@ "text B" :> 40 @@
    "text C" :> 40 @@ "medium" :> 260 @@ "long 1" :> 400 @@ "long 2" :> 400

ElementTexts == DOMAIN ElementLen

HasKeyword(txt) == txt \notin { "", "menu" }

\* txt[:keep] + "..." when len(txt) > max
Truncate(txt, max, keep) ==
    IF ElementLen[txt] <= max THEN txt
    ELSE IF txt = "medium" THEN "medium[:237]..."
    ELSE IF keep = 237 THEN "long[:237]..." ELSE "long[:297]..."

\* len() of a snippet
SnippetLen(snip) ==
    CASE snip \in ElementTexts -> ElementLen[snip]
      [] snip \in { "medium[:237]...", "long[:237]..." } -> 240
      [] OTHER -> 300

ElementLists == UNION { [1..n -> ElementTexts] : n \in 0..MaxElements }

\* the loop of find_guarantees from element i on
RECURSIVE FindGuarantees(_, _, _)
FindGuarantees(page, i, snippets) ==
    IF i > Len(page) THEN snippets
    ELSE IF page[i] = "" \/ ~HasKeyword(page[i]) \/ ElementLen[page[i]] < GUARANTEE_MIN_LEN
    THEN FindGuarantees(page, i + 1, snippets)
    ELSE LET txt == Truncate(page[i], GUARANTEE_MAX_LEN, 237)
             sn2 == IF txt \in Range(snippets) THEN snippets ELSE Append(snippets, txt)
         IN  IF Len(sn2) >= GUARANTEE_MAX_SNIPPETS THEN sn2
             ELSE FindGuarantees(page, i + 1, sn2)

\* extract_sponsorship_snippets_from_html, and the merge of a further page's
\* snippets into all_snips (the same loop, started from the snippets so far)
RECURSIVE SponsorshipSnippets(_, _, _)
SponsorshipSnippets(page, i, snippets) ==
    IF i > Len(page) THEN snippets
    ELSE IF page[i] = "" \/ ~HasKeyword(page[i])
    THEN SponsorshipSnippets(page, i + 1, snippets)
    ELSE LET txt == Truncate(page[i], SPONSOR_MAX_LEN, 297)
         IN  SponsorshipSnippets(page, i + 1,
                IF txt \in Range(snippets) THEN snippets ELSE Append(snippets, txt))

\* " | ".join(snippets)
RECURSIVE Join(_)
Join(snippets) ==
    IF Len(snippets) <= 1 THEN snippets
    ELSE <<Head(snippets), " | ">> \o Join(Tail(snippets))

\* the snippets of the routine for a home page and one extra page, and the
\* value main() writes for them
ExtractSnippets(routine, site) ==
    LET snippets == IF routine = "guarantee.find_guarantees"
                    THEN FindGuarantees(site.home, 1, <<>>)
                    ELSE SponsorshipSnippets(site.extra, 1,
                             SponsorshipSnippets(site.home, 1, <<>>))
        none     == IF routine = "guarantee.find_guarantees" THEN "None found" ELSE "None"
    IN  [snippets |-> snippets,
         value    |-> IF snippets = <<>> THEN <<none>> ELSE Join(snippets)]

find_guarantees ==
    /\ fn = "guarantee.find_guarantees" /\ ~output.done
    /\ output' = [done |-> TRUE] @@ ExtractSnippets(fn, input)
    /\ UNCHANGED <<fn, input, classifyVars>>
    /\ UNCHANGED <<hookVars, scriptVars, fetchVars>>

detect_sponsorship_snippets ==
    /\ fn = "sponsers.detect_sponsorship_snippets" /\ ~output.done
    /\ output' = [done |-> TRUE] @@ ExtractSnippets(fn, input)
    /\ UNCHANGED <<fn, input, classifyVars>>
    /\ UNCHANGED <<hookVars, scriptVars, fetchVars>>

\* find_guarantees reads one page; the sponsorship scan reads the home page
\* and the extra pages, here one with at most one element
InitSnippets ==
    /\ fn \in SnippetRoutines
    /\ input \in [home : ElementLists, extra : { <<>>, <<"text A">>, <<"text C">> }]
    /\ fn = "guarantee.find_guarantees" => input.extra = <<>>
    /\ output = [done |-> FALSE, snippets |-> <<>>, value |-> <<>>]
    /\ ClassifyIdle
    /\ HookIdle
    /\ ScriptIdle
    /\ FetchIdle

NextSnippets ==
    \/ find_guarantees
    \/ detect_sponsorship_snippets

SpecSnippets == InitSnippets /\ [][NextSnippets]_vars

SnippetMaxLen == IF fn = "guarantee.find_guarantees" THEN GUARANTEE_MAX_LEN ELSE SPONSOR_MAX_LEN

\* C25 (as claimed): the value written is made of distinct snippets, each at
\* most the script's maximum length, at most a fixed number of them (three,
\* the one cap the scripts define), joined with " | ".
C25_SnippetValue ==
    (output.done /\ output.snippets # <<>>) =>
        LET sn == output.snippets
        IN  /\ \A j, k \in 1..Len(sn) : j # k => sn[j] # sn[k]
            /\ \A k \in 1..Len(sn) : SnippetLen(sn[k]) <= SnippetMaxLen
            /\ Len(sn) <= GUARANTEE_MAX_SNIPPETS
            /\ Len(output.value) = 2 * Len(sn) - 1
            /\ \A k \in 1..Len(sn) : output.value[2 * k - 1] = sn[k]
            /\ \A k \in 1..(Len(sn) - 1) : output.value[2 * k] = " | "


(***************************************************************************)
(* classify_target_verticals.main: the crawl list of one record and the    *)
(* (url, text) pages handed to classify_with_evidence.  A url of the site  *)
(* is its path: "" for the base url sanitize_url_for_home returns          *)
(* (scheme://host, no path), "/" for the base url joined with "/".         *)
(***************************************************************************)
MaxExtraLinks == 4

DEFAULT_PATHS ==
    << "/", "/services", "/industries", "/residential", "/commercial", "/insurance" >>

\* the urls discover_extra_links can return for a site
ExtraPaths == { "/", "/residential", "/markets", "/sectors", "/insurance-claims", "/commercial-jobs" }

\* extra link lists: no url twice (discover_extra_links keeps a seen set)
ExtraLinkLists ==
    { l \in UNION { [1..n -> ExtraPaths] : n \in 0..MaxExtraLinks } :
        \A j, k \in 1..Len(l) : j # k => l[j] # l[k] }

\* which requests are answered with a page that has text
FetchPatterns == { "all", "none", "root only", "all but root" }

Fetched(pattern, path) ==
    CASE pattern = "all" -> TRUE
      [] pattern = "none" -> FALSE
      [] pattern = "root only" -> path \in { "", "/" }
      [] OTHER -> path \notin { "", "/" }

\* urljoin(base, p) for a base without path and an absolute path p
UrlJoin(base, path) == path

\* the page a server answers a path with: "" and "/" are the same request
PageOf(path) == IF path = "" THEN "/" ELSE path

\* for u in seeds + extra_links: if u not in seen: append
RECURSIVE UniqueUrls(_, _, _)
UniqueUrls(list, i, urls) ==
    IF i > Len(list) THEN urls
    ELSE UniqueUrls(list, i + 1,
            IF list[i] \in Range(urls) THEN urls ELSE Append(urls, list[i]))

\* the loop over urls[:1 + MAX_INTERNAL_LINKS_PER_SITE]
RECURSIVE CollectPages(_, _, _, _)
CollectPages(urls, i, pattern, collected) ==
    IF i > Len(urls) \/ i > 1 + MAX_INTERNAL_LINKS_PER_SITE THEN collected
    ELSE IF urls[i] = ""      \* if u == base: continue
    THEN CollectPages(urls, i + 1, pattern, collected)
    ELSE CollectPages(urls, i + 1, pattern,
            IF Fetched(pattern, urls[i])
            THEN Append(collected, [url |-> urls[i], text |-> TRUE]) ELSE collected)

\* the pages of one record: (base, home text) first, then the crawl list
BuildPages(site) ==
    LET seeds       == [k \in 1..Len(DEFAULT_PATHS) |-> UrlJoin("", DEFAULT_PATHS[k])]
        extra_links == IF site.html_home THEN site.extra ELSE <<>>
        urls        == UniqueUrls(seeds \o extra_links, 1, <<>>)
        first       == [url |-> "",
                        text |-> site.html_home \/ Fetched(site.pattern, "")]
    IN  CollectPages(urls, 1, site.pattern, <<first>>)

classify_main_pages ==
    /\ fn = "classify_target_verticals.main" /\ ~output.done
    /\ output' = [done |-> TRUE, pages |-> BuildPages(input)]
    /\ UNCHANGED <<fn, input, classifyVars>>
    /\ UNCHANGED <<hookVars, scriptVars, fetchVars>>

InitPages ==
    /\ fn = "classify_target_verticals.main"
    /\ input \in [html_home : BOOLEAN, extra : ExtraLinkLists, pattern : FetchPatterns]
    /\ output = [done |-> FALSE, pages |-> <<>>]
    /\ ClassifyIdle
    /\ HookIdle
    /\ ScriptIdle
    /\ FetchIdle

NextPages == classify_main_pages

SpecPages == InitPages /\ [][NextPages]_vars

\* C26 (as claimed): among the pages scored for a record, the home page's
\* text occurs at most once, whether under the base url or under the base
\* url joined with "/".
C26_HomeScoredOnce ==
    output.done =>
        Cardinality({ k \in 1..Len(output.pages) :
                        output.pages[k].text /\ PageOf(output.pages[k].url) = "/" }) <= 1


(***************************************************************************)
(* new_reviews.within_30_days.  A relative-time label is "<lead> <unit>    *)
(* ago": the lead is a number, "a" or "an"; the unit is singular or        *)
(* plural; other labels ("", "yesterday", "New") have no relative time.    *)
(***************************************************************************)
MaxCount == 31

TimeUnits == { "minute", "hour", "day", "week", "month", "year" }

ReviewLabels ==
    [kind : {"relative"}, lead : {"num"}, n : 0..MaxCount, unit : TimeUnits, plural : BOOLEAN]
      \cup [kind : {"relative"}, lead : {"a"}, n : {1}, unit : TimeUnits \ {"hour"},
            plural : {FALSE}]
      \cup [kind : {"relative"}, lead : {"an"}, n : {1}, unit : {"hour"}, plural : {FALSE}]
      \cup [kind : {"", "yesterday", "New"}, lead : {"none"}, n : {0}, unit : {"day"},
            plural : {FALSE}]

\* if s in ("a day ago", "a week ago", "a month ago"): s = s.replace("a ", "1 ")
ReplaceArticle(label) ==
    IF label.kind = "relative" /\ label.lead = "a" /\ ~label.plural
       /\ label.unit \in { "day", "week", "month" }
    THEN [label EXCEPT !.lead = "num", !.n = 1]
    ELSE label

\* RELATIVE_RE.search(s): digits, white space, a unit with an optional s, "ago"
RelativeMatch(label) == label.kind = "relative" /\ label.lead = "num"

WithinThirtyDays(label) ==
    LET s == ReplaceArticle(label)
    IN  IF ~RelativeMatch(s) THEN FALSE
        ELSE IF s.unit \in { "minute", "hour" } THEN TRUE
        ELSE IF s.unit = "day" THEN s.n <= 30
        ELSE IF s.unit = "week" THEN s.n * 7 <= 30
        ELSE IF s.unit = "month" THEN s.n <= 1
        ELSE FALSE

within_30_days ==
    /\ fn = "new_reviews.within_30_days" /\ ~output.done
    /\ output' = [done |-> TRUE, value |-> WithinThirtyDays(input)]
    /\ UNCHANGED <<fn, input, classifyVars>>
    /\ UNCHANGED <<hookVars, scriptVars, fetchVars>>

InitReview ==
    /\ fn = "new_reviews.within_30_days"
    /\ input \in ReviewLabels
    /\ output = [done |-> FALSE, value |-> FALSE]
    /\ ClassifyIdle
    /\ HookIdle
    /\ ScriptIdle
    /\ FetchIdle

NextReview == within_30_days

SpecReview == InitReview /\ [][NextReview]_vars

\* the age a label denotes is at most 30 days
AtMostThirtyDays(label) ==
    /\ label.kind = "relative"
    /\ CASE label.unit \in { "minute", "hour" } -> TRUE
         [] label.unit = "day" -> label.n <= 30
         [] label.unit = "week" -> 7 * label.n <= 30
         [] label.unit = "month" -> label.n <= 1
         [] OTHER -> FALSE

\* C28 (as claimed): within_30_days is True exactly for the labels that denote
\* an age of at most 30 days, "a minute ago" and "an hour ago" among them, and
\* False for years and for labels without a relative time.
C28_Within30Days ==
    output.done => (output.value <=> AtMostThirtyDays(input))

====
